---- MODULE Spec2Model ----
(***************************************************************************)
(* Model of the travel planner.  The SOLID half: the tool registry         *)
(* (core/registry.py), the hotel parameter mapper and date validator       *)
(* (core/services.py), the hotel search tool (tools_solid/hotel_tool.py),  *)
(* the hotel search service (services/hotel_service.py) and the            *)
(* dispatcher (server_solid.py).  The legacy half: the itinerary and train *)
(* tools (tools/generate_itinerary.py, tools/search_trains.py) and the     *)
(* dispatchers of server.py and server_simple.py.                          *)
(*                                                                         *)
(* Python values are tagged records, so that values of different Python    *)
(* types can be compared: None, int, str.  A str whose text has the shape  *)
(* Y-M-D is kept as its three numeric fields plus a flag telling whether   *)
(* month and day are written zero-padded ("2025-10-04") or not             *)
(* ("2025-10-4"); every other str is kept as its text.                     *)
(***************************************************************************)
EXTENDS Integers, Sequences, FiniteSets, TLC

VARIABLES
    tools,      \* TravelToolRegistry._tools: insertion-ordered dict, as a sequence of [name, tool]
    last,       \* outcome of the last registry operation
    live,       \* history of the registry calls, folded: the successful registrations in
                \* the order they were made, without those of names unregistered since
    name,       \* tool name of the last handle_call_tool invocation
    arguments,  \* argument map of the last call
    collab,     \* what the injected collaborators do during the last call
    today,      \* calendar day (ordinal) datetime.now() fell on during the last call
    mapped,     \* outcome of map_parameters in the last call
    result,     \* outcome of ITravelTool.execute / ISearchService.search / IValidator.validate
                \* in the last call
    reply,      \* outcome of handle_call_tool: the JSON object of the reply, or a raise
    trace,      \* collaborator invocations made by the last call, in order
    log,        \* entries written with logger.error by the last call
    tasks,      \* concurrent handle_call_tool invocations: for each task its arguments,
                \* the point where its coroutine stands and its reply
    frames      \* the local variables of the suspended coroutines, by slot

vars == <<tools, last, live, name, arguments, collab, today, mapped, result, reply, trace, log,
          tasks, frames>>

----------------------------------------------------------------------------
(* Bounds                                                                  *)

MaxNights == 3      \* nights ranges over 0..MaxNights
DateSpan == 0       \* start dates range over each base day .. base day + DateSpan
MaxHotels == 2      \* the API answers with at most this many raw hotels
ExtraTools == 2     \* substituted tools registered under names of their own
MaxDays == 3        \* an itinerary is asked for 1..MaxDays days (and for 0 and 8)
MaxDraw == 1        \* the random generator yields a value in 0..MaxDraw
MaxTrains == 3      \* a train search generates 3..MaxTrains trains
MaxPassengers == 2  \* a train search is for 1..MaxPassengers passengers

----------------------------------------------------------------------------
(* Python values                                                           *)

None == [none |-> TRUE]
IntVal(i) == [int |-> i]
StrVal(s) == [str |-> s]
DateStr(y, m, d, pad) == [ymd |-> <<y, m, d>>, pad |-> pad]

IsNone(v) == "none" \in DOMAIN v
IsInt(v) == "int" \in DOMAIN v
IsPlainStr(v) == "str" \in DOMAIN v
IsDateStr(v) == "ymd" \in DOMAIN v

\* a str built by formatting: the sequence of its pieces
Text(pieces) == [text |-> pieces]
IsText(v) == "text" \in DOMAIN v

\* bool(v): None, 0 and "" are falsy
Truthy(v) ==
    IF IsNone(v) THEN FALSE
    ELSE IF IsInt(v) THEN v.int # 0
    ELSE IF IsPlainStr(v) THEN v.str # ""
    ELSE IF IsText(v) THEN v.text # <<>>
    ELSE TRUE

\* a or b
Or(a, b) == IF Truthy(a) THEN a ELSE b

\* dict.get(k) and dict.get(k, default)
Get(d, k) == IF k \in DOMAIN d THEN d[k] ELSE None

\* mutant: dict.get called without its default
GetDefault_none(d, k, default) == Get(d, k)

GetDefault(d, k, default) == IF k \in DOMAIN d THEN d[k] ELSE default

\* {**a, **b}
Merge(a, b) == [k \in DOMAIN a \cup DOMAIN b |-> IF k \in DOMAIN b THEN b[k] ELSE a[k]]

Range(s) == {s[i] : i \in DOMAIN s}

\* outcome of a call: a returned value or a raised exception
Ok(v) == [ok |-> v]
Raise(type, msg) == [exc |-> [type |-> type, msg |-> msg]]
Raised(r) == "exc" \in DOMAIN r

----------------------------------------------------------------------------
(* datetime: strptime, timedelta addition, strftime (proleptic Gregorian   *)
(* ordinals, as the standard library computes them)                        *)

IsLeap(y) == y % 4 = 0 /\ (y % 100 # 0 \/ y % 400 = 0)

DaysInMonth(y, m) ==
    IF m = 2 THEN (IF IsLeap(y) THEN 29 ELSE 28)
    ELSE IF m \in {4, 6, 9, 11} THEN 30 ELSE 31

DaysBeforeYear(y) ==
    (y - 1) * 365 + ((y - 1) \div 4) - ((y - 1) \div 100) + ((y - 1) \div 400)

RECURSIVE DaysBeforeMonth(_, _)
DaysBeforeMonth(y, m) ==
    IF m = 1 THEN 0 ELSE DaysBeforeMonth(y, m - 1) + DaysInMonth(y, m - 1)

ToOrdinal(y, m, d) == DaysBeforeYear(y) + DaysBeforeMonth(y, m) + d

\* datetime.fromordinal: the 400/100/4/1-year cycle decomposition
FromOrdinal(n) ==
    LET n0 == n - 1
        n400 == n0 \div 146097
        r400 == n0 % 146097
        n100 == r400 \div 36524
        r100 == r400 % 36524
        n4 == r100 \div 1461
        r4 == r100 % 1461
        n1 == r4 \div 365
        r1 == r4 % 365
        year == n400 * 400 + 1 + n100 * 100 + n4 * 4 + n1
    IN  IF n1 = 4 \/ n100 = 4 THEN <<year - 1, 12, 31>>
        ELSE LET leapyear == n1 = 3 /\ (n4 # 24 \/ n100 = 3)
                 Before(m) == DaysBeforeMonth(IF leapyear THEN 4 ELSE 1, m)
                 guess == (r1 + 50) \div 32
                 month == IF Before(guess) > r1 THEN guess - 1 ELSE guess
             IN  <<year, month, r1 - Before(month) + 1>>

\* datetime.strptime(v, "%Y-%m-%d"): the ordinal of the day, or the exception
strptime(v) ==
    IF IsDateStr(v)
    THEN LET y == v.ymd[1]
             m == v.ymd[2]
             d == v.ymd[3]
         IN  IF m \in 1..12 /\ d \in 1..31
             THEN IF d <= DaysInMonth(y, m)
                  THEN Ok(ToOrdinal(y, m, d))
                  ELSE Raise("ValueError", <<"day is out of range for month">>)
             ELSE Raise("ValueError", <<"time data does not match format %Y-%m-%d">>)
    ELSE IF IsPlainStr(v)
    THEN Raise("ValueError", <<"time data does not match format %Y-%m-%d">>)
    ELSE Raise("TypeError", <<"strptime() argument 1 must be str">>)

\* datetime.strftime("%Y-%m-%d"): always zero-padded
strftime(n) ==
    LET ymd == FromOrdinal(n) IN DateStr(ymd[1], ymd[2], ymd[3], TRUE)

\* int(v)
PyInt(v) ==
    IF IsInt(v) THEN Ok(v.int)
    ELSE IF IsNone(v) THEN Raise("TypeError", <<"int() argument must be a string or a number">>)
    ELSE Raise("ValueError", <<"invalid literal for int() with base 10">>)

----------------------------------------------------------------------------
(* HotelParameterMapper.map_parameters                                     *)

\* lines 224-229: the departure date after the nights derivation, or the exception
DeriveDeparture(args, arrival_date, departure_date) ==
    IF ~Truthy(departure_date) /\ Truthy(Get(args, "nights")) /\ Truthy(arrival_date)
    THEN LET arrival_dt == strptime(arrival_date)
             nights == PyInt(args["nights"])
         IN  IF Raised(arrival_dt) THEN arrival_dt
             ELSE IF Raised(nights) THEN nights
             ELSE Ok(strftime(arrival_dt.ok + nights.ok))
    ELSE Ok(departure_date)

map_parameters(args) ==
    LET location == Or(Get(args, "location"), Get(args, "city"))
        arrival_date == Or(Get(args, "arrival_date"), Get(args, "checkIn"))
        departure == DeriveDeparture(args, arrival_date, Get(args, "departure_date"))
        adults == Or(Get(args, "adults"), GetDefault(args, "guests", IntVal(1)))
    IN  IF Raised(departure) THEN departure
        ELSE Ok([location |-> location,
                 arrival_date |-> arrival_date,
                 departure_date |-> departure.ok,
                 adults |-> adults,
                 children_age |-> GetDefault(args, "children_age", StrVal("")),
                 room_qty |-> GetDefault(args, "room_qty", IntVal(1)),
                 currency_code |-> GetDefault(args, "currency_code", StrVal("USD")),
                 languagecode |-> GetDefault(args, "languagecode", StrVal("en-us"))])

----------------------------------------------------------------------------
(* DateValidator.validate: the pair (is_valid, message); never raises      *)

\* mutant: equal dates pass the ordering rule
DateRules_equalAllowed(arrival_dt, departure_dt, now) ==
    IF arrival_dt > departure_dt
    THEN <<FALSE, Text(<<"Departure date must be after arrival date">>)>>
    ELSE IF arrival_dt < now
    THEN <<FALSE, Text(<<"Arrival date cannot be in the past">>)>>
    ELSE <<TRUE, None>>

\* lines 260-267: the rules on the two parsed dates; now is midnight of the current day
DateRules(arrival_dt, departure_dt, now) ==
    IF arrival_dt >= departure_dt
    THEN <<FALSE, Text(<<"Departure date must be after arrival date">>)>>
    ELSE IF arrival_dt < now
    THEN <<FALSE, Text(<<"Arrival date cannot be in the past">>)>>
    ELSE <<TRUE, None>>

validate(data, now) ==
    LET arrival_date == Get(data, "arrival_date")
        departure_date == Get(data, "departure_date")
    IN  IF ~Truthy(arrival_date) \/ ~Truthy(departure_date)
        THEN <<FALSE, Text(<<"Missing required dates">>)>>
        ELSE LET arrival_dt == strptime(arrival_date)
                 departure_dt == strptime(departure_date)
                 first == IF Raised(arrival_dt) THEN arrival_dt ELSE departure_dt
             IN  IF Raised(first)
                 THEN IF first.exc.type = "ValueError"
                      THEN <<FALSE, Text(<<"Invalid date format: ">> \o first.exc.msg)>>
                      ELSE <<FALSE, Text(<<"Date validation error: ">> \o first.exc.msg)>>
                 ELSE DateRules(arrival_dt.ok, departure_dt.ok, now)

----------------------------------------------------------------------------
(* SearchResult and HotelSearchCriteria                                    *)

SearchResult(success, data, error, timestamp, source) ==
    [success |-> success, data |-> data, error |-> error,
     timestamp |-> timestamp, source |-> source]

EmptyDict == [k \in {} |-> None]

\* datetime.now().isoformat()
IsoFormat(now) == [iso |-> now]

HotelSearchCriteria(m) ==
    [location |-> m["location"],
     arrival_date |-> m["arrival_date"],
     departure_date |-> m["departure_date"],
     adults |-> GetDefault(m, "adults", IntVal(1)),
     children_age |-> GetDefault(m, "children_age", StrVal("")),
     room_qty |-> GetDefault(m, "room_qty", IntVal(1)),
     currency_code |-> GetDefault(m, "currency_code", StrVal("USD")),
     languagecode |-> GetDefault(m, "languagecode", StrVal("en-us"))]

\* the defaults the dataclass HotelSearchCriteria declares for its optional fields
CriteriaDefaults ==
    [adults |-> IntVal(1), children_age |-> StrVal(""), room_qty |-> IntVal(1),
     currency_code |-> StrVal("USD"), languagecode |-> StrVal("en-us")]

\* the "default" entries of the inputSchema in HotelSearchTool.get_tool_definition
SchemaDefaults ==
    [adults |-> IntVal(1), children_age |-> StrVal(""), room_qty |-> IntVal(1),
     currency_code |-> StrVal("USD"), languagecode |-> StrVal("en-us")]

----------------------------------------------------------------------------
(* HotelSearchService.search                                               *)
(*                                                                         *)
(* The injected collaborators are the environment of a call, env:          *)
(*   validator  "DateValidator" (the wired validator) or "raises"          *)
(*   geocoder   "ok" or "raises"                                           *)
(*   config     "ok", "raises", "nosection" (no hotel_api.rapidapi entry)  *)
(*              or "nohost" (entry without host)                           *)
(*   service    "HotelSearchService" (the wired service) or "raises" (a    *)
(*              substituted ISearchService whose search raises)            *)
(*   stub       what execute of a substituted ITravelTool does: a raised   *)
(*              exception or Ok(SearchResult)                              *)
(*   api        [raises |-> TRUE], or the response [status, message,       *)
(*              result]; result is the list of raw hotels, each telling    *)
(*              what the formatter does with it: "ok", "error" (a dict     *)
(*              carrying error), "nopricing" (a dict without pricing) or   *)
(*              "raises"                                                   *)
(* Every step yields [out, trace]: out is Ok(SearchResult) or a raised     *)
(* exception, trace the collaborator calls made so far.                    *)

\* mutant: a failure that carries the reason inside data as well
Failure_withData(error, timestamp) ==
    SearchResult(FALSE, [message |-> error], error, timestamp, None)

\* mutant: a failure never carries the time it was produced
Failure_unstamped(error, timestamp) == SearchResult(FALSE, EmptyDict, error, None, None)

Failure(error, timestamp) == SearchResult(FALSE, EmptyDict, error, timestamp, None)

Latitude == 30
Longitude == -97

_calculate_nights(arrival_date, departure_date) ==
    LET arrival_dt == strptime(arrival_date)
        departure_dt == strptime(departure_date)
    IN  IF Raised(arrival_dt) \/ Raised(departure_dt) THEN 0
        ELSE departure_dt.ok - arrival_dt.ok

_build_search_criteria_response(criteria, nights) ==
    LET response == [location |-> criteria.location,
                     coordinates |-> Text(<<ToString(Latitude), ", ", ToString(Longitude)>>),
                     arrival_date |-> criteria.arrival_date,
                     departure_date |-> criteria.departure_date,
                     adults |-> criteria.adults,
                     room_qty |-> criteria.room_qty,
                     currency_code |-> criteria.currency_code]
    IN  IF nights = None THEN response ELSE Merge(response, [nights |-> nights])

\* IDataFormatter.format_response on one raw hotel
format_response(raw) ==
    IF raw.fmt = "raises" THEN Raise("AttributeError", <<"object has no attribute get">>)
    ELSE IF raw.fmt = "error"
    THEN Ok([hotelId |-> raw.hotel_id, error |-> Text(<<"Failed to format hotel data: ">>)])
    ELSE IF raw.fmt = "nopricing" THEN Ok([hotelId |-> raw.hotel_id])
    ELSE Ok([hotelId |-> raw.hotel_id, pricing |-> [pricePerNight |-> 100]])

\* price, rating and class statistics are not modelled beyond the pricing lookup
_build_summary(hotels) ==
    IF hotels = <<>>
    THEN Ok([totalHotels |-> 0, hotelsDisplayed |-> 0])
    ELSE IF \E i \in DOMAIN hotels : "pricing" \notin DOMAIN hotels[i]
    THEN Raise("KeyError", <<"pricing">>)
    ELSE Ok([totalHotels |-> Len(hotels), hotelsDisplayed |-> Len(hotels)])

DisplayLimit == 20

\* hotels_list[:20]
Head20(list) == SubSeq(list, 1, IF Len(list) < DisplayLimit THEN Len(list) ELSE DisplayLimit)

\* Step 8: the formatted hotels kept, or the first exception of the formatter
RECURSIVE FormatAll(_)
FormatAll(list) ==
    IF list = <<>> THEN Ok(<<>>)
    ELSE LET formatted_hotel == format_response(Head(list))
             rest == FormatAll(Tail(list))
         IN  IF Raised(formatted_hotel) THEN formatted_hotel
             ELSE IF Raised(rest) THEN rest
             ELSE IF ~Truthy(Get(formatted_hotel.ok, "error"))
             THEN Ok(<<formatted_hotel.ok>> \o rest.ok)
             ELSE rest

\* number of format_response calls made by Step 8
RECURSIVE FormatCalls(_)
FormatCalls(list) ==
    IF list = <<>> THEN <<>>
    ELSE IF Raised(format_response(Head(list))) THEN <<[fn |-> "format_response"]>>
    ELSE <<[fn |-> "format_response"]>> \o FormatCalls(Tail(list))

\* Steps 6-9
ProcessResponse(criteria, api_response, now, tr) ==
    IF ~api_response.status
    THEN [out |-> Ok(Failure(Text(<<"API Error: ", api_response.message>>), IsoFormat(now))),
          trace |-> tr]
    ELSE IF api_response.result = <<>>
    THEN [out |-> Ok(SearchResult(TRUE,
                        [searchCriteria |-> _build_search_criteria_response(criteria, None),
                         resultsFound |-> IntVal(0),
                         hotels |-> <<>>,
                         message |-> StrVal("No hotels found for the specified criteria")],
                        None, IsoFormat(now), StrVal("Booking.com RapidAPI"))),
          trace |-> tr]
    ELSE LET hotels_list == api_response.result
             formatted_hotels == FormatAll(Head20(hotels_list))
             trace8 == tr \o FormatCalls(Head20(hotels_list))
             nights == IntVal(_calculate_nights(criteria.arrival_date, criteria.departure_date))
         IN  IF Raised(formatted_hotels) THEN [out |-> formatted_hotels, trace |-> trace8]
             ELSE LET summary == _build_summary(formatted_hotels.ok)
                  IN  IF Raised(summary) THEN [out |-> summary, trace |-> trace8]
                      ELSE [out |-> Ok(SearchResult(TRUE,
                                [searchCriteria |-> _build_search_criteria_response(criteria, nights),
                                 resultsFound |-> IntVal(Len(hotels_list)),
                                 resultsDisplayed |-> IntVal(Len(formatted_hotels.ok)),
                                 summary |-> summary.ok,
                                 hotels |-> formatted_hotels.ok],
                                None, IsoFormat(now), StrVal("Booking.com RapidAPI"))),
                            trace |-> trace8]

\* Steps 4-5: build the request (reads api_config['host']) and send it
RequestStep(criteria, env, now, tr) ==
    IF env.config = "nohost"
    THEN [out |-> Raise("KeyError", <<"host">>), trace |-> tr]
    ELSE LET trace5 == Append(tr, [fn |-> "make_request"])
         IN  IF "raises" \in DOMAIN env.api
             THEN [out |-> Raise("Exception", <<"API request failed with status 500">>),
                   trace |-> trace5]
             ELSE ProcessResponse(criteria, env.api, now, trace5)

\* Step 3
ConfigStep(criteria, env, now, tr) ==
    LET trace3 == Append(tr, [fn |-> "load_config"])
    IN  IF env.config = "raises"
        THEN [out |-> Ok(Failure(Text(<<"Failed to load API configuration: ",
                                        "Configuration file not found">>), IsoFormat(now))),
              trace |-> trace3]
        ELSE IF env.config = "nosection"
        THEN [out |-> Ok(Failure(Text(<<"Failed to load API configuration: ", "hotel_api">>),
                                 IsoFormat(now))),
              trace |-> trace3]
        ELSE RequestStep(criteria, env, now, trace3)

\* Step 2
GeocodeStep(criteria, env, now, tr) ==
    LET trace2 == Append(tr, [fn |-> "get_coordinates"])
    IN  IF env.geocoder = "raises"
        THEN [out |-> Ok(Failure(Text(<<"Failed to get coordinates for location ",
                                        ToString(criteria.location), ": ",
                                        "Unable to get coordinates for location">>),
                                 IsoFormat(now))),
              trace |-> trace2]
        ELSE ConfigStep(criteria, env, now, trace2)

\* mutant: the validator is called and its verdict ignored
SearchBody_noStop(criteria, env, now) ==
    GeocodeStep(criteria, env, now, <<[fn |-> "validate"]>>)

\* Step 1 and the body of the try block
SearchBody(criteria, env, now) ==
    LET trace1 == <<[fn |-> "validate"]>>
    IN  IF env.validator = "raises"
        THEN [out |-> Raise("RuntimeError", <<"validator failed">>), trace |-> trace1]
        ELSE LET checked == validate(criteria, now)
             IN  IF ~checked[1]
                 THEN [out |-> Ok(Failure(checked[2], IsoFormat(now))), trace |-> trace1]
                 ELSE GeocodeStep(criteria, env, now, trace1)

\* mutant: no except clause around the body
search_uncaught(criteria, env, now) == SearchBody(criteria, env, now)

\* except Exception as e: what the try block raised becomes a failure Result
SearchExcept(body, now) ==
    IF Raised(body.out)
    THEN [out |-> Ok(Failure(Text(<<"Hotel search failed: ">> \o body.out.exc.msg),
                             IsoFormat(now))),
          trace |-> body.trace]
    ELSE body

\* try: ... except Exception as e
search(criteria, env, now) == SearchExcept(SearchBody(criteria, env, now), now)

----------------------------------------------------------------------------
(* HotelSearchTool.execute                                                 *)

\* mutant: the dates are checked but the location is not
RequiredCheck_noLocation(m) ==
    IF ~Truthy(Get(m, "arrival_date")) \/ ~Truthy(Get(m, "departure_date"))
    THEN Text(<<"Missing required parameters: ", "arrival_date", " and ", "departure_date">>)
    ELSE None

\* mutant: the second check looks at arrival_date only
RequiredCheck_arrivalOnly(m) ==
    IF ~Truthy(Get(m, "location"))
    THEN Text(<<"Missing required parameter: ", "location">>)
    ELSE IF ~Truthy(Get(m, "arrival_date"))
    THEN Text(<<"Missing required parameters: ", "arrival_date", " and ", "departure_date">>)
    ELSE None

\* Step 2: the error reported for the mapped parameters, None when all three are there
RequiredCheck(m) ==
    IF ~Truthy(Get(m, "location"))
    THEN Text(<<"Missing required parameter: ", "location">>)
    ELSE IF ~Truthy(Get(m, "arrival_date")) \/ ~Truthy(Get(m, "departure_date"))
    THEN Text(<<"Missing required parameters: ", "arrival_date", " and ", "departure_date">>)
    ELSE None

\* Step 4: result = await self.search_service.search(criteria); return result
Delegated(tr, found) == [out |-> found.out, trace |-> tr \o found.trace]

\* the body of the try block: Steps 1-4
ExecuteBody(args, env, now) ==
    LET mapped_params == map_parameters(args)
        trace1 == <<[fn |-> "map_parameters"]>>
    IN  IF Raised(mapped_params) THEN [out |-> mapped_params, trace |-> trace1]
        ELSE IF RequiredCheck(mapped_params.ok) # None
        THEN [out |-> Ok(Failure(RequiredCheck(mapped_params.ok), None)), trace |-> trace1]
        ELSE LET criteria == HotelSearchCriteria(mapped_params.ok)
                 trace4 == Append(trace1, [fn |-> "search", criteria |-> criteria])
             IN  IF env.service = "raises"
                 THEN [out |-> Raise("RuntimeError", <<"service unavailable">>),
                       trace |-> trace4]
                 ELSE Delegated(trace4, search(criteria, env, now))

\* except Exception as e: what the try block raised becomes a failure Result
ExecuteExcept(body) ==
    IF Raised(body.out)
    THEN [out |-> Ok(Failure(Text(<<"Tool execution error: ">> \o body.out.exc.msg), None)),
          trace |-> body.trace]
    ELSE body

\* try: ... except Exception as e
execute(args, env, now) == ExecuteExcept(ExecuteBody(args, env, now))

----------------------------------------------------------------------------
(* TravelToolRegistry: _tools is a dict, which keeps insertion order       *)

Names(reg) == {reg[i].name : i \in DOMAIN reg}

\* mutant: an unknown name falls back to the first registered tool
get_tool_by_name_default(reg, n) ==
    IF n \in Names(reg)
    THEN (CHOOSE e \in Range(reg) : e.name = n).tool
    ELSE IF reg # <<>> THEN reg[1].tool ELSE None

\* self._tools.get(name)
get_tool_by_name(reg, n) ==
    IF n \in Names(reg)
    THEN (CHOOSE e \in Range(reg) : e.name = n).tool
    ELSE None

\* mutant: no duplicate check, so the dict assignment overwrites the entry in place
register_tool_overwrite(reg, obj) ==
    IF obj.kind = "object"
    THEN [tools |-> reg,
          out |-> Raise("TypeError", <<"Tool must implement ITravelTool interface">>)]
    ELSE IF obj.name \in Names(reg)
    THEN [tools |-> [i \in DOMAIN reg |-> IF reg[i].name = obj.name
                                          THEN [name |-> obj.name, tool |-> obj]
                                          ELSE reg[i]],
          out |-> Ok(None)]
    ELSE [tools |-> Append(reg, [name |-> obj.name, tool |-> obj]), out |-> Ok(None)]

\* the registry after register_tool(obj), and what the call returned or raised
register_tool(reg, obj) ==
    IF obj.kind = "object"
    THEN [tools |-> reg,
          out |-> Raise("TypeError", <<"Tool must implement ITravelTool interface">>)]
    ELSE IF obj.name \in Names(reg)
    THEN [tools |-> reg,
          out |-> Raise("ValueError", <<"Tool ", obj.name, " is already registered">>)]
    ELSE [tools |-> Append(reg, [name |-> obj.name, tool |-> obj]), out |-> Ok(None)]

\* ToolRegistryBuilder.add_tool: register_tool on the builder's registry, then return self
add_tool(reg, obj) ==
    IF Raised(register_tool(reg, obj).out)
    THEN register_tool(reg, obj)
    ELSE [tools |-> register_tool(reg, obj).tools, out |-> Ok([builder |-> TRUE])]

\* mutant: the last entry is moved into the place of the removed one
Delete_swapLast(reg, n) ==
    [i \in 1..(Len(reg) - 1) |-> IF reg[i].name = n THEN reg[Len(reg)] ELSE reg[i]]

\* del self._tools[name]
Delete(reg, n) == SelectSeq(reg, LAMBDA e : e.name # n)

\* mutant: the whole dict is emptied
unregister_tool_clear(reg, n) ==
    IF n \in Names(reg)
    THEN [tools |-> <<>>, out |-> Ok(TRUE)]
    ELSE [tools |-> reg, out |-> Ok(FALSE)]

unregister_tool(reg, n) ==
    IF n \in Names(reg)
    THEN [tools |-> Delete(reg, n), out |-> Ok(TRUE)]
    ELSE [tools |-> reg, out |-> Ok(FALSE)]

get_all_tools(reg) == [i \in DOMAIN reg |-> reg[i].tool]

get_tool_names(reg) == [i \in DOMAIN reg |-> reg[i].name]

\* ITravelTool.get_tool_definition, as far as the listing goes: the advertised name
get_tool_definition(tool) == [name |-> tool.name]

\* the server's list_tools reply
handle_list_tools(reg) ==
    [i \in DOMAIN get_all_tools(reg) |-> get_tool_definition(get_all_tools(reg)[i])]

----------------------------------------------------------------------------
(* TravelPlannerServer: handle_call_tool                                   *)

\* json.dumps(response_data) wrapped into the single TextContent of the reply
TextContent(response_data) == [type |-> "text", json |-> response_data]

\* tool.execute(arguments) for the tool found in the registry
ToolExecute(tool, args, env, now) ==
    IF tool.kind = "HotelSearchTool"
    THEN execute(args, env, now)
    ELSE [out |-> env.stub, trace |-> <<>>]

\* mutant: the envelope is written first, so same-named keys of data replace it
ResponseData_dataWins(res) ==
    IF res.success
    THEN Merge([searchTimestamp |-> res.timestamp, source |-> res.source], res.data)
    ELSE [error |-> res.error, timestamp |-> res.timestamp]

\* lines 103-110: the response built from the Result
ResponseData(res) ==
    IF res.success
    THEN Merge(res.data, [searchTimestamp |-> res.timestamp, source |-> res.source])
    ELSE [error |-> res.error, timestamp |-> res.timestamp]

\* lines 97-112: the tool has been executed; the reply built from what it returned
Respond(tool, ran) ==
    IF Raised(ran.out)
    THEN [out |-> ran.out, result |-> None,
          trace |-> <<[fn |-> "execute", tool |-> tool.id]>> \o ran.trace, log |-> <<>>]
    ELSE [out |-> Ok(TextContent(ResponseData(ran.out.ok))), result |-> ran.out.ok,
          trace |-> <<[fn |-> "execute", tool |-> tool.id]>> \o ran.trace, log |-> <<>>]

\* the body of the try block; result is None until execute has returned
HandlerBody(reg, n, args, env, now) ==
    LET tool == get_tool_by_name(reg, n)
    IN  IF tool = None
        THEN [out |-> Raise("ValueError", <<"Unknown tool: ", n>>),
              result |-> None, trace |-> <<>>, log |-> <<>>]
        ELSE Respond(tool, ToolExecute(tool, args, env, now))

\* mutant: the timestamp is written only when a Result exists
HandlerExcept_noTimestamp(body, n) ==
    IF Raised(body.out)
    THEN [out |-> Ok(TextContent(
                     IF body.result # None
                     THEN [error |-> Text(<<"Tool execution failed: ">> \o body.out.exc.msg),
                           timestamp |-> body.result.timestamp]
                     ELSE [error |-> Text(<<"Tool execution failed: ">> \o body.out.exc.msg)])),
          result |-> body.result,
          trace |-> body.trace,
          log |-> <<Text(<<"Error executing tool ", n, ": ">> \o body.out.exc.msg)>>]
    ELSE body

\* except Exception as e: log the error and answer {error, timestamp}
HandlerExcept(body, n) ==
    IF Raised(body.out)
    THEN [out |-> Ok(TextContent(
                     [error |-> Text(<<"Tool execution failed: ">> \o body.out.exc.msg),
                      timestamp |-> IF body.result # None
                                    THEN body.result.timestamp ELSE None])),
          result |-> body.result,
          trace |-> body.trace,
          log |-> <<Text(<<"Error executing tool ", n, ": ">> \o body.out.exc.msg)>>]
    ELSE body

\* mutant: no except clause, the exception leaves the handler
handle_call_tool_reraise(reg, n, args, env, now) == HandlerBody(reg, n, args, env, now)

\* try: ... except Exception as e
handle_call_tool(reg, n, args, env, now) ==
    HandlerExcept(HandlerBody(reg, n, args, env, now), n)

----------------------------------------------------------------------------
(* Inputs                                                                  *)

Absent == [absent |-> TRUE]

\* the dict holding the keys of f whose value is not Absent
Dict(f) == [k \in {j \in DOMAIN f : f[j] # Absent} |-> f[k]]

BaseDays == {ToOrdinal(2024, 2, 27), ToOrdinal(2025, 12, 30)}

StartDates == {strftime(b + i) : b \in BaseDays, i \in 0..DateSpan}

EndDates == {strftime(b + i) : b \in BaseDays, i \in 0..MaxNights}

\* "", text that is no date, 30 February, and a date written without padding
OddDates == {StrVal(""), StrVal("tomorrow"), DateStr(2025, 2, 30, TRUE),
             DateStr(2025, 12, 5, FALSE)}

NightsValues == {IntVal(n) : n \in 0..MaxNights} \cup {StrVal("two")}

\* the keys that carry the stay
DateArgs ==
    {Dict(f) :
        f \in [arrival_date : {Absent} \cup StartDates \cup OddDates,
               checkIn : {Absent, strftime(ToOrdinal(2025, 12, 31))},
               departure_date : {Absent, StrVal("")} \cup EndDates,
               nights : {Absent} \cup NightsValues]}

\* the keys that carry the place
PlaceArgs ==
    {Dict(f) : f \in [location : {Absent, StrVal(""), StrVal("Austin")},
                      city : {Absent, StrVal("Miami")}]}

OptionalGiven ==
    [children_age |-> StrVal("5,8"), room_qty |-> IntVal(2),
     currency_code |-> StrVal("EUR"), languagecode |-> StrVal("fr-fr")]

\* the keys that carry the occupancy and the options
GuestArgs ==
    {Merge(Dict(f), o) : f \in [adults : {Absent, IntVal(0), IntVal(2)},
                                guests : {Absent, IntVal(0), IntVal(3)}],
                         o \in {EmptyDict, OptionalGiven}}

\* the stays whose values are all dates or a count of 0 or 1 night
PlainStays ==
    {d \in DateArgs : \A k \in DOMAIN d : IsDateStr(d[k]) \/ d[k] \in {IntVal(0), IntVal(1)}}

\* argument maps of the mapper: every stay with every place, and every occupancy with
\* the plain stays in Austin
ArgMaps ==
    {Merge(d, p) : d \in DateArgs, p \in PlaceArgs}
    \cup {Merge(Merge(d, [location |-> StrVal("Austin")]), g) : d \in PlainStays, g \in GuestArgs}

----------------------------------------------------------------------------
(* The mapper on its own: map_parameters applied to every argument map     *)

Pending == [pending |-> TRUE]

Idle == [idle |-> TRUE]

MapInit ==
    /\ arguments \in ArgMaps
    /\ mapped = Pending
    /\ tools = <<>> /\ last = Idle /\ live = <<>> /\ tasks = <<>> /\ frames = <<>> /\ name = "" /\ collab = Idle /\ today = 0
    /\ result = Pending /\ reply = Pending /\ trace = <<>> /\ log = <<>>

MapParameters ==
    /\ mapped = Pending
    /\ mapped' = map_parameters(arguments)
    /\ UNCHANGED <<tools, last, live, name, arguments, collab, today, result, reply, trace, log, tasks, frames>>

MapNext == MapParameters

MapperSpec == MapInit /\ [][MapNext]_vars

----------------------------------------------------------------------------
(* The hotel tool on its own: execute applied to every argument map, day   *)
(* and behaviour of the collaborators                                      *)

RawHotel(i, fmt) == [hotel_id |-> i, fmt |-> fmt]

\* n hotels, the last of which the formatter treats as fmt
HotelList(n, fmt) == [i \in 1..n |-> RawHotel(i, IF i = n THEN fmt ELSE "ok")]

HotelLists ==
    {<<>>} \cup {HotelList(n, fmt) : n \in 1..MaxHotels,
                                     fmt \in {"ok", "error", "nopricing", "raises"}}

ApiResponse(list) == [status |-> TRUE, message |-> "", result |-> list]

\* execute of a substituted tool raises
StubRaises == Raise("RuntimeError", <<"boom">>)

AllOk ==
    [validator |-> "DateValidator", geocoder |-> "ok", config |-> "ok",
     api |-> ApiResponse(HotelList(1, "ok")), service |-> "HotelSearchService",
     stub |-> StubRaises]

\* the collaborators all work, or exactly one of them misbehaves
Envs ==
    {AllOk}
    \cup {[AllOk EXCEPT !.validator = "raises"], [AllOk EXCEPT !.geocoder = "raises"],
          [AllOk EXCEPT !.service = "raises"]}
    \cup {[AllOk EXCEPT !.config = c] : c \in {"raises", "nosection", "nohost"}}
    \cup {[AllOk EXCEPT !.api = a] :
              a \in {[raises |-> TRUE],
                     [status |-> FALSE, message |-> "Rate limit exceeded", result |-> <<>>]}
                    \cup {ApiResponse(l) : l \in HotelLists}}

\* the day of the call: the first base day (no date is in the past) or the day after
Days == {ToOrdinal(2024, 2, 27), ToOrdinal(2024, 2, 28)}

ExecArgs == {Merge(d, p) : d \in DateArgs, p \in PlaceArgs}

ExecInit ==
    /\ arguments \in ExecArgs
    /\ collab \in Envs
    /\ today \in Days
    /\ mapped = Pending /\ result = Pending /\ trace = <<>>
    /\ tools = <<>> /\ last = Idle /\ live = <<>> /\ tasks = <<>> /\ frames = <<>> /\ name = "" /\ reply = Pending /\ log = <<>>

\* the call has returned: its Result and the collaborator calls it made
Returned(ran) == result' = ran.out /\ trace' = ran.trace

Execute ==
    /\ result = Pending
    /\ mapped' = map_parameters(arguments)
    /\ Returned(execute(arguments, collab, today))
    /\ UNCHANGED <<tools, last, live, name, arguments, collab, today, reply, log, tasks, frames>>

ExecNext == Execute

ExecSpec == ExecInit /\ [][ExecNext]_vars

----------------------------------------------------------------------------
(* The validator on its own: validate applied to every pair of values      *)
(* under arrival_date and departure_date, with and without other fields    *)

\* a missing key, null, a number, the odd texts and the days of the calendar in use
DateValues == {Absent, None, IntVal(20250101)} \cup OddDates \cup StartDates \cup EndDates

ValidatorData ==
    {Merge(Dict(f), o) :
        f \in [arrival_date : DateValues, departure_date : DateValues],
        o \in {EmptyDict, [location |-> StrVal("Austin"), adults |-> IntVal(2)]}}

ValidateInit ==
    /\ arguments \in ValidatorData
    /\ today \in Days
    /\ result = Pending
    /\ tools = <<>> /\ last = Idle /\ live = <<>> /\ tasks = <<>> /\ frames = <<>> /\ name = "" /\ collab = Idle
    /\ mapped = Pending /\ reply = Pending /\ trace = <<>> /\ log = <<>>

Validate ==
    /\ result = Pending
    /\ result' = Ok(validate(arguments, today))
    /\ UNCHANGED <<tools, last, live, name, arguments, collab, today, mapped, reply, trace, log, tasks, frames>>

ValidateNext == Validate

ValidatorSpec == ValidateInit /\ [][ValidateNext]_vars

----------------------------------------------------------------------------
(* The registry on its own: any sequence of register_tool and              *)
(* unregister_tool calls                                                   *)

\* the tool DependencyContainer wires
HotelTool == [id |-> "hotel", kind |-> "HotelSearchTool", name |-> "searchHotels"]

\* a second ITravelTool whose get_name() is also "searchHotels"
RivalTool == [id |-> "rival", kind |-> "stub", name |-> "searchHotels"]

\* further ITravelTool implementations under names of their own
ExtraTool(i) == [id |-> "extra" \o ToString(i), kind |-> "stub", name |-> "tool" \o ToString(i)]

\* an object that does not implement ITravelTool
NotATool == [id |-> "object", kind |-> "object", name |-> ""]

Candidates == {HotelTool, RivalTool, NotATool} \cup {ExtraTool(i) : i \in 1..ExtraTools}

ToolNames == {"searchHotels", "bookFlight"} \cup {ExtraTool(i).name : i \in 1..ExtraTools}

RegistryInit ==
    /\ tools = <<>>
    /\ last = Idle
    /\ live = <<>> /\ tasks = <<>> /\ frames = <<>>
    /\ name = "" /\ arguments = EmptyDict /\ collab = Idle /\ today = 0
    /\ mapped = Pending /\ result = Pending /\ reply = Pending /\ trace = <<>> /\ log = <<>>

\* the history after a registration call that answered out
Registered(h, obj, out) ==
    IF Raised(out) THEN h ELSE Append(h, [name |-> obj.name, tool |-> obj])

\* the history after an unregister call for n
Unregistered(h, n) == SelectSeq(h, LAMBDA e : e.name # n)

RegisterTool(obj) ==
    /\ LET r == register_tool(tools, obj)
       IN  /\ tools' = r.tools
           /\ last' = [op |-> "register_tool", arg |-> obj.id, out |-> r.out]
           /\ live' = Registered(live, obj, r.out)
    /\ UNCHANGED <<name, arguments, collab, today, mapped, result, reply, trace, log, tasks, frames>>

AddTool(obj) ==
    /\ LET r == add_tool(tools, obj)
       IN  /\ tools' = r.tools
           /\ last' = [op |-> "add_tool", arg |-> obj.id, out |-> r.out]
           /\ live' = Registered(live, obj, r.out)
    /\ UNCHANGED <<name, arguments, collab, today, mapped, result, reply, trace, log, tasks, frames>>

UnregisterTool(n) ==
    /\ LET r == unregister_tool(tools, n)
       IN  /\ tools' = r.tools
           /\ last' = [op |-> "unregister_tool", arg |-> n, out |-> r.out]
           /\ live' = Unregistered(live, n)
    /\ UNCHANGED <<name, arguments, collab, today, mapped, result, reply, trace, log, tasks, frames>>

\* self._tools.get(name) reads the dict and writes nothing
GetToolByName(n) ==
    /\ last' = [op |-> "get_tool_by_name", arg |-> n, out |-> Ok(get_tool_by_name(tools, n))]
    /\ UNCHANGED <<tools, live, name, arguments, collab, today, mapped, result, reply,
                   trace, log, tasks, frames>>

RegistryNext ==
    \/ \E obj \in Candidates : RegisterTool(obj)
    \/ \E obj \in Candidates : AddTool(obj)
    \/ \E n \in ToolNames : UnregisterTool(n)
    \/ \E n \in ToolNames : GetToolByName(n)

RegistrySpec == RegistryInit /\ [][RegistryNext]_vars

----------------------------------------------------------------------------
(* The dispatcher: one handle_call_tool invocation over a registry that    *)
(* startup wiring has built                                                *)

\* ToolRegistryBuilder: add_tool for each tool of the wiring, then build
RECURSIVE Build(_)
Build(wiring) ==
    IF wiring = <<>> THEN <<>>
    ELSE register_tool(Build(SubSeq(wiring, 1, Len(wiring) - 1)), wiring[Len(wiring)]).tools

Wired == {HotelTool, RivalTool, ExtraTool(1)}

\* wirings of at most two tools that startup completes (no add_tool raises)
Wirings ==
    {<<>>} \cup {<<t>> : t \in Wired}
           \cup {w \in Wired \X Wired : w[1].name # w[2].name}

StubData ==
    {EmptyDict,
     [hotels |-> <<>>, resultsFound |-> IntVal(0)],
     [hotels |-> <<>>, source |-> StrVal("cache"), searchTimestamp |-> StrVal("earlier"),
      error |-> StrVal("stale"), timestamp |-> StrVal("earlier")]}

StubResults ==
    {SearchResult(s, d, e, t, src) :
        s \in BOOLEAN, d \in StubData, e \in {None, Text(<<"upstream down">>)},
        t \in {None, IsoFormat(ToOrdinal(2024, 2, 27))}, src \in {None, StrVal("stub")}}

StubOutcomes == {StubRaises} \cup {Ok(r) : r \in StubResults}

CallEnvs == Envs \cup {[AllOk EXCEPT !.stub = o] : o \in StubOutcomes}

LaterDay(n) == strftime(ToOrdinal(2025, 12, 30) + n)

CallArgs ==
    {EmptyDict,
     [location |-> StrVal("Austin"), arrival_date |-> LaterDay(0),
      departure_date |-> LaterDay(3), adults |-> IntVal(2)],
     [city |-> StrVal("Miami"), checkIn |-> LaterDay(1), nights |-> IntVal(3),
      guests |-> IntVal(3)],
     [location |-> StrVal("Austin"), arrival_date |-> LaterDay(1),
      departure_date |-> LaterDay(0)],
     [arrival_date |-> LaterDay(0), departure_date |-> LaterDay(1)],
     [location |-> StrVal("Austin"), arrival_date |-> StrVal("tomorrow"),
      nights |-> IntVal(3)]}

Init ==
    /\ tools \in {Build(w) : w \in Wirings}
    /\ last = Idle
    /\ live = <<>> /\ tasks = <<>> /\ frames = <<>>
    /\ name \in ToolNames
    /\ arguments \in CallArgs
    /\ collab \in CallEnvs
    /\ today \in Days
    /\ mapped = Pending /\ result = Pending /\ reply = Pending /\ trace = <<>> /\ log = <<>>

\* the handler has answered: the reply, the Result it held, the calls made, the log
Answered(h) == reply' = h.out /\ result' = h.result /\ trace' = h.trace /\ log' = h.log

HandleCallTool ==
    /\ reply = Pending
    /\ Answered(handle_call_tool(tools, name, arguments, collab, today))
    /\ UNCHANGED <<tools, last, live, name, arguments, collab, today, mapped, tasks, frames>>

Next == HandleCallTool

Spec == Init /\ [][Next]_vars

----------------------------------------------------------------------------
(* Concurrent handle_call_tool invocations over one registry.  A coroutine  *)
(* runs without interruption until it waits for the network: inside        *)
(* geocoder.get_coordinates and inside api_client.make_request.  What it   *)
(* keeps across a wait are its local variables: the tool found, the        *)
(* criteria built.                                                         *)

Tasks == {1, 2}

\* mutant: the locals are kept on the server object, which all invocations share
Slot_shared(t) == 1

\* every invocation runs in a coroutine frame of its own
Slot(t) == t

TaskArgs ==
    {EmptyDict,
     [location |-> StrVal("Austin"), arrival_date |-> LaterDay(0),
      departure_date |-> LaterDay(3), adults |-> IntVal(2)],
     [city |-> StrVal("Miami"), checkIn |-> LaterDay(1), nights |-> IntVal(3),
      guests |-> IntVal(3)]}

TaskEnvs ==
    {AllOk,
     [AllOk EXCEPT !.geocoder = "raises"],
     [AllOk EXCEPT !.config = "nosection"],
     [AllOk EXCEPT !.api = [raises |-> TRUE]],
     [AllOk EXCEPT !.stub = Ok(SearchResult(TRUE, [hotels |-> <<>>], None, None, StrVal("stub")))]}

TaskCalls ==
    [pc : {"start"}, name : {"searchHotels", "tool1", "bookFlight"}, arguments : TaskArgs,
     collab : TaskEnvs, reply : {Pending}]

NoFrame == [tool |-> None, criteria |-> None]

ConcInit ==
    /\ tools \in {Build(<<HotelTool>>), Build(<<HotelTool, ExtraTool(1)>>)}
    /\ tasks \in [Tasks -> TaskCalls]
    /\ frames = [t \in Tasks |-> NoFrame]
    /\ today = ToOrdinal(2024, 2, 27)
    /\ trace = <<>> /\ log = <<>>
    /\ last = Idle /\ live = <<>> /\ name = "" /\ arguments = EmptyDict /\ collab = Idle
    /\ mapped = Pending /\ result = Pending /\ reply = Pending

\* the invocation gets as far as the geocoder: the hotel tool is found, the parameters
\* map, the three required ones are there, and validation passes
ReachesGeocoder(call) ==
    /\ get_tool_by_name(tools, call.name) # None
    /\ get_tool_by_name(tools, call.name).kind = "HotelSearchTool"
    /\ ~Raised(map_parameters(call.arguments))
    /\ RequiredCheck(map_parameters(call.arguments).ok) = None
    /\ call.collab.service = "HotelSearchService"
    /\ call.collab.validator = "DateValidator"
    /\ validate(HotelSearchCriteria(map_parameters(call.arguments).ok), today)[1]

\* the handler returns h for task t
Replies(t, h) ==
    /\ tasks' = [tasks EXCEPT ![t].pc = "done", ![t].reply = h.out]
    /\ log' = log \o h.log

\* search has come to body for the invocation whose locals are f; the way back through
\* search, execute and handle_call_tool
Unwind(f, call, body) ==
    HandlerExcept(
        Respond(f.tool,
                ExecuteExcept(
                    Delegated(<<[fn |-> "map_parameters"],
                                [fn |-> "search", criteria |-> f.criteria]>>,
                              SearchExcept(body, today)))),
        call.name)

\* the invocation starts and runs until it returns or waits for the geocoder
StartCall(t) ==
    /\ tasks[t].pc = "start"
    /\ trace' = Append(trace, t)
    /\ IF ReachesGeocoder(tasks[t])
       THEN /\ tasks' = [tasks EXCEPT ![t].pc = "geocoding"]
            /\ frames' = [frames EXCEPT ![Slot(t)] =
                              [tool |-> get_tool_by_name(tools, tasks[t].name),
                               criteria |-> HotelSearchCriteria(
                                                map_parameters(tasks[t].arguments).ok)]]
            /\ log' = log
       ELSE /\ Replies(t, handle_call_tool(tools, tasks[t].name, tasks[t].arguments,
                                          tasks[t].collab, today))
            /\ frames' = frames
    /\ UNCHANGED <<tools, last, live, name, arguments, collab, today, mapped, result, reply>>

\* the geocoder has answered: the invocation runs until it returns or waits for the API
GeocoderAnswers(t) ==
    /\ tasks[t].pc = "geocoding"
    /\ trace' = Append(trace, t)
    /\ IF tasks[t].collab.geocoder = "ok" /\ tasks[t].collab.config = "ok"
       THEN tasks' = [tasks EXCEPT ![t].pc = "requesting"] /\ log' = log
       ELSE Replies(t, Unwind(frames[Slot(t)], tasks[t],
                              GeocodeStep(frames[Slot(t)].criteria, tasks[t].collab, today,
                                          <<[fn |-> "validate"]>>)))
    /\ UNCHANGED <<tools, last, live, name, arguments, collab, today, mapped, result, reply,
                   frames>>

\* the API has answered: the invocation runs to its return
ApiAnswers(t) ==
    /\ tasks[t].pc = "requesting"
    /\ trace' = Append(trace, t)
    /\ Replies(t, Unwind(frames[Slot(t)], tasks[t],
                         RequestStep(frames[Slot(t)].criteria, tasks[t].collab, today,
                                     <<[fn |-> "validate"], [fn |-> "get_coordinates"],
                                       [fn |-> "load_config"]>>)))
    /\ UNCHANGED <<tools, last, live, name, arguments, collab, today, mapped, result, reply,
                   frames>>

ConcNext ==
    \/ \E t \in Tasks : StartCall(t)
    \/ \E t \in Tasks : GeocoderAnswers(t)
    \/ \E t \in Tasks : ApiAnswers(t)

ConcurrentSpec == ConcInit /\ [][ConcNext]_vars

----------------------------------------------------------------------------
(* tools/generate_itinerary.py.  The values random.choice draws are part   *)
(* of the environment of a call: collab.random[day] is the value the       *)
(* generator yields on that day, and a choice from a list takes the        *)
(* element at that value modulo the length of the list.                    *)

\* CITY_DATA: of every entry the fields the control flow reads (name, type; cuisine and
\* price of a restaurant); duration, cost and note are copied into the schedule unread
CITY_DATA ==
    "Austin" :>
        [attractions |-> <<
             [name |-> "Texas State Capitol", type |-> "culture"],
             [name |-> "Lady Bird Lake", type |-> "nature"],
             [name |-> "South Congress Bridge Bats", type |-> "nature"],
             [name |-> "Zilker Park", type |-> "nature"],
             [name |-> "Blanton Museum of Art", type |-> "culture"],
             [name |-> "Bullock Texas State History Museum", type |-> "culture"],
             [name |-> "Austin City Limits Music Festival", type |-> "nightlife"],
             [name |-> "South Congress Shopping", type |-> "shopping"],
             [name |-> "Barton Springs Pool", type |-> "nature"],
             [name |-> "6th Street Entertainment District", type |-> "nightlife"]
         >>,
         restaurants |-> <<
             [name |-> "Franklin Barbecue", cuisine |-> "BBQ", price |-> "$$"],
             [name |-> "Uchi", cuisine |-> "Japanese", price |-> "$$$"],
             [name |-> "Torchy's Tacos", cuisine |-> "Mexican", price |-> "$"],
             [name |-> "The Salt Lick", cuisine |-> "BBQ", price |-> "$$"],
             [name |-> "Amy's Ice Cream", cuisine |-> "Dessert", price |-> "$"],
             [name |-> "Paperboy", cuisine |-> "Breakfast", price |-> "$$"],
             [name |-> "Veracruz All Natural", cuisine |-> "Mexican", price |-> "$"],
             [name |-> "Home Slice Pizza", cuisine |-> "Italian", price |-> "$$"]
         >>,
         activities |-> <<
             [name |-> "Kayaking on Lady Bird Lake", type |-> "nature"],
             [name |-> "Food truck tours", type |-> "food"],
             [name |-> "Live music at The Continental Club", type |-> "nightlife"],
             [name |-> "Hiking at Mount Bonnell", type |-> "nature"],
             [name |-> "Shopping at The Domain", type |-> "shopping"]
         >>]
    @@ "San Francisco" :>
        [attractions |-> <<
             [name |-> "Golden Gate Bridge", type |-> "nature"],
             [name |-> "Alcatraz Island", type |-> "culture"],
             [name |-> "Fisherman's Wharf", type |-> "culture"],
             [name |-> "Lombard Street", type |-> "culture"],
             [name |-> "Golden Gate Park", type |-> "nature"],
             [name |-> "Chinatown", type |-> "culture"],
             [name |-> "Mission District Murals", type |-> "culture"],
             [name |-> "Cable Car rides", type |-> "culture"],
             [name |-> "Coit Tower", type |-> "culture"],
             [name |-> "Palace of Fine Arts", type |-> "culture"]
         >>,
         restaurants |-> <<
             [name |-> "Ghirardelli Ice Cream", cuisine |-> "Dessert", price |-> "$$"],
             [name |-> "Swan Oyster Depot", cuisine |-> "Seafood", price |-> "$$$"],
             [name |-> "Mission Chinese Food", cuisine |-> "Chinese", price |-> "$$"],
             [name |-> "Tartine Bakery", cuisine |-> "Bakery", price |-> "$$"],
             [name |-> "In-N-Out Burger", cuisine |-> "American", price |-> "$"],
             [name |-> "Boudin Bakery", cuisine |-> "Bakery", price |-> "$$"],
             [name |-> "La Taqueria", cuisine |-> "Mexican", price |-> "$"]
         >>,
         activities |-> <<
             [name |-> "Wine tasting in Napa Valley", type |-> "food"],
             [name |-> "Bike ride across Golden Gate Bridge", type |-> "nature"],
             [name |-> "Food tour in Chinatown", type |-> "food"],
             [name |-> "Shopping at Union Square", type |-> "shopping"],
             [name |-> "Sunset at Baker Beach", type |-> "nature"]
         >>]
    @@ "New York" :>
        [attractions |-> <<
             [name |-> "Central Park", type |-> "nature"],
             [name |-> "Statue of Liberty", type |-> "culture"],
             [name |-> "Times Square", type |-> "culture"],
             [name |-> "9/11 Memorial", type |-> "culture"],
             [name |-> "Brooklyn Bridge", type |-> "culture"],
             [name |-> "High Line", type |-> "nature"],
             [name |-> "Empire State Building", type |-> "culture"],
             [name |-> "Metropolitan Museum of Art", type |-> "culture"],
             [name |-> "Broadway Show", type |-> "nightlife"],
             [name |-> "Little Italy", type |-> "culture"]
         >>,
         restaurants |-> <<
             [name |-> "Katz's Delicatessen", cuisine |-> "Deli", price |-> "$$"],
             [name |-> "Peter Luger Steak House", cuisine |-> "Steakhouse", price |-> "$$$$"],
             [name |-> "Di Fara Pizza", cuisine |-> "Pizza", price |-> "$$"],
             [name |-> "Russ & Daughters", cuisine |-> "Jewish", price |-> "$$"],
             [name |-> "Joe's Pizza", cuisine |-> "Pizza", price |-> "$"],
             [name |-> "Levain Bakery", cuisine |-> "Bakery", price |-> "$"],
             [name |-> "Xi'an Famous Foods", cuisine |-> "Chinese", price |-> "$"]
         >>,
         activities |-> <<
             [name |-> "Food tour in Greenwich Village", type |-> "food"],
             [name |-> "Shopping in SoHo", type |-> "shopping"],
             [name |-> "Jazz at Blue Note", type |-> "nightlife"],
             [name |-> "Ferry to Staten Island", type |-> "nature"],
             [name |-> "Rooftop bars in Manhattan", type |-> "nightlife"]
         >>]
    @@ "Miami" :>
        [attractions |-> <<
             [name |-> "South Beach", type |-> "nature"],
             [name |-> "Art Deco Historic District", type |-> "culture"],
             [name |-> "Vizcaya Museum & Gardens", type |-> "culture"],
             [name |-> "Wynwood Walls", type |-> "culture"],
             [name |-> "Little Havana", type |-> "culture"],
             [name |-> "Bayside Marketplace", type |-> "shopping"],
             [name |-> "Miami Beach Boardwalk", type |-> "nature"],
             [name |-> "Perez Art Museum Miami", type |-> "culture"]
         >>,
         restaurants |-> <<
             [name |-> "Joe's Stone Crab", cuisine |-> "Seafood", price |-> "$$$"],
             [name |-> "Versailles Restaurant", cuisine |-> "Cuban", price |-> "$$"],
             [name |-> "Yardbird Southern Table", cuisine |-> "Southern", price |-> "$$"],
             [name |-> "Puerto Sagua", cuisine |-> "Cuban", price |-> "$"],
             [name |-> "The Bazaar by Jose Andres", cuisine |-> "Spanish", price |-> "$$$$"]
         >>,
         activities |-> <<
             [name |-> "Art Basel Miami Beach", type |-> "culture"],
             [name |-> "Boat tour of Biscayne Bay", type |-> "nature"],
             [name |-> "Salsa dancing in Little Havana", type |-> "nightlife"],
             [name |-> "Shopping at Lincoln Road", type |-> "shopping"]
         >>]

\* a list argument
ListVal(l) == [list |-> l]

\* random.choice(seq): IndexError on an empty sequence
choice(seq, r) ==
    IF seq = <<>> THEN Raise("IndexError", <<"Cannot choose from an empty sequence">>)
    ELSE Ok(seq[(r % Len(seq)) + 1])

\* list.remove(x): the list without the first element equal to x
Remove(seq, x) ==
    LET i == CHOOSE k \in DOMAIN seq : seq[k] = x /\ \A j \in 1..(k - 1) : seq[j] # x
    IN  SubSeq(seq, 1, i - 1) \o SubSeq(seq, i + 1, Len(seq))

\* [item for item in items if item["type"] in interests]
OfInterest(items, interests) == SelectSeq(items, LAMBDA item : item.type \in Range(interests))

\* the schedule entry of an attraction or an activity
Visit(time, verb, item) ==
    [time |-> time, activity |-> item.name, type |-> item.type,
     description |-> Text(<<verb, item.name>>)]

\* the schedule entry of a meal
Meal(time, label, spot) ==
    [time |-> time, activity |-> Text(<<label, spot.name>>), type |-> "food",
     cuisine |-> spot.cuisine, price |-> spot.price]

\* Morning: an attraction of interest, taken off the list
Morning(filtered_attractions, r) ==
    IF filtered_attractions = <<>>
    THEN [entries |-> <<>>, attractions |-> <<>>]
    ELSE [entries |-> <<Visit("9:00 AM", "Visit ", choice(filtered_attractions, r).ok)>>,
          attractions |-> Remove(filtered_attractions, choice(filtered_attractions, r).ok)]

\* the breakfast spot, or the exception of random.choice
Breakfast(filtered_restaurants, r) ==
    choice(SelectSeq(filtered_restaurants,
                     LAMBDA s : s.cuisine \in {"Breakfast", "Bakery", "American"}), r)

PricedAt(filtered_restaurants, prices) ==
    SelectSeq(filtered_restaurants, LAMBDA s : s.price \in prices)

\* lunch or dinner: an entry when a restaurant of that price exists
MealAt(time, label, options, r) ==
    IF options = <<>> THEN <<>> ELSE <<Meal(time, label, choice(options, r).ok)>>

\* Afternoon: an activity of interest, else an attraction, taken off its list
Afternoon(filtered_attractions, filtered_activities, r) ==
    IF filtered_activities # <<>>
    THEN [entries |-> <<Visit("3:00 PM", "Experience ", choice(filtered_activities, r).ok)>>,
          attractions |-> filtered_attractions,
          activities |-> Remove(filtered_activities, choice(filtered_activities, r).ok)]
    ELSE IF filtered_attractions # <<>>
    THEN [entries |-> <<Visit("3:00 PM", "Explore ", choice(filtered_attractions, r).ok)>>,
          attractions |-> Remove(filtered_attractions, choice(filtered_attractions, r).ok),
          activities |-> filtered_activities]
    ELSE [entries |-> <<>>, attractions |-> filtered_attractions,
          activities |-> filtered_activities]

\* Evening entertainment, from the unfiltered data of the city
Nightlife(city_data, interests, r) ==
    LET nightlife_options ==
            SelectSeq(city_data.attractions \o city_data.activities,
                      LAMBDA item : item.type = "nightlife")
    IN  IF "nightlife" \in Range(interests) /\ nightlife_options # <<>>
        THEN <<Visit("9:00 PM", "Enjoy ", choice(nightlife_options, r).ok)>>
        ELSE <<>>

\* the day's schedule once breakfast was chosen; budget, transportation and tips are
\* computed from the entries without reading anything that can be missing
DaySchedule(city_data, day, interests, morning, breakfast, afternoon, r, now) ==
    [day |-> day,
     date |-> strftime(now + day - 1),
     morning |-> Append(morning.entries, Meal("8:00 AM", "Breakfast at ", breakfast.ok)),
     afternoon |-> MealAt("1:00 PM", "Lunch at ",
                          PricedAt(city_data.restaurants, {"$", "$$"}), r)
                   \o afternoon.entries,
     evening |-> MealAt("7:00 PM", "Dinner at ",
                        PricedAt(city_data.restaurants, {"$$", "$$$", "$$$$"}), r)
                 \o Nightlife(city_data, interests, r)]

\* one iteration of the loop: [out, attractions, activities]
PlanDay(city_data, day, interests, morning, filtered_activities, r, now) ==
    IF Raised(Breakfast(city_data.restaurants, r))
    THEN [out |-> Breakfast(city_data.restaurants, r),
          attractions |-> morning.attractions, activities |-> filtered_activities]
    ELSE [out |-> Ok(DaySchedule(city_data, day, interests, morning,
                                 Breakfast(city_data.restaurants, r),
                                 Afternoon(morning.attractions, filtered_activities, r),
                                 r, now)),
          attractions |-> Afternoon(morning.attractions, filtered_activities, r).attractions,
          activities |-> Afternoon(morning.attractions, filtered_activities, r).activities]

\* for day in range(1, days + 1): the daily plans, or the exception that ended the loop
RECURSIVE DailyPlans(_, _, _, _, _, _, _, _, _)
RECURSIVE NextDayOf(_, _, _, _, _, _, _, _)
DailyPlans(city_data, days, interests, day, attractions, activities, random, now, daily_plans) ==
    IF day > days THEN Ok(daily_plans)
    ELSE NextDayOf(city_data, days, interests, day, random, now, daily_plans,
                   PlanDay(city_data, day, interests, Morning(attractions, random[day]),
                           activities, random[day], now))

NextDayOf(city_data, days, interests, day, random, now, daily_plans, planned) ==
    IF Raised(planned.out) THEN planned.out
    ELSE DailyPlans(city_data, days, interests, day + 1, planned.attractions,
                    planned.activities, random, now, Append(daily_plans, planned.out.ok))

\* f"day{day}"
DayKey(day) == "day" \o ToString(day)

\* itinerary[day_key] = day_schedule, for every daily plan
Itinerary(daily_plans) ==
    [day_key \in {DayKey(d) : d \in DOMAIN daily_plans} |->
        daily_plans[CHOOSE d \in DOMAIN daily_plans : DayKey(d) = day_key]]

\* the return value for the daily plans; the budget and the tips of the summary are
\* not modelled
Compiled(city, days, interests, daily_plans, now) ==
    IF Raised(daily_plans) THEN daily_plans
    ELSE Ok([summary |-> [destination |-> city,
                          duration |-> Text(<<ToString(days), " day",
                                              IF days > 1 THEN "s" ELSE "">>),
                          interests |-> interests],
             itinerary |-> Itinerary(daily_plans.ok),
             generatedAt |-> IsoFormat(now)])

\* if not interests: interests = ["culture", "food", "nature"]
InterestsOrDefault(interests) ==
    IF IsNone(interests) \/ interests.list = <<>>
    THEN <<"culture", "food", "nature">>
    ELSE interests.list

Planned(city, days, interests, random, now) ==
    Compiled(city, days, interests,
             DailyPlans(CITY_DATA[city], days, interests, 1,
                        OfInterest(CITY_DATA[city].attractions, interests),
                        OfInterest(CITY_DATA[city].activities, interests),
                        random, now, <<>>),
             now)

generate_itinerary(city, days, interests, random, now) ==
    IF city \notin DOMAIN CITY_DATA
    THEN Ok([error |-> Text(<<"Itinerary generation not available for: ", city>>),
             available_cities |-> <<"Austin", "San Francisco", "New York", "Miami">>])
    ELSE IF days < 1 \/ days > 7
    THEN Ok([error |-> Text(<<"Itinerary generation supports 1-7 days">>)])
    ELSE Planned(city, days, InterestsOrDefault(interests), random, now)

----------------------------------------------------------------------------
(* The itinerary generator on its own: generate_itinerary applied to every *)
(* city, duration, list of interests and run of the random generator       *)

Cities == {"Austin", "San Francisco", "New York", "Miami", "Chicago", "austin"}

Durations == {0, 8} \cup 1..MaxDays

InterestLists ==
    {None, ListVal(<<>>), ListVal(<<"culture", "food">>), ListVal(<<"nightlife">>),
     ListVal(<<"shopping", "nature">>)}

\* the values the generator yields, one for each day there can be
RandomRuns == [1..MaxDays -> 0..MaxDraw]

ItineraryInit ==
    /\ arguments \in [city : Cities, days : Durations, interests : InterestLists]
    /\ collab \in [random : RandomRuns]
    /\ today = ToOrdinal(2024, 2, 27)
    /\ result = Pending
    /\ tools = <<>> /\ last = Idle /\ live = <<>> /\ tasks = <<>> /\ frames = <<>>
    /\ name = "generateItinerary"
    /\ mapped = Pending /\ reply = Pending /\ trace = <<>> /\ log = <<>>

GenerateItinerary ==
    /\ result = Pending
    /\ result' = generate_itinerary(arguments.city, arguments.days, arguments.interests,
                                    collab.random, today)
    /\ UNCHANGED <<tools, last, live, name, arguments, collab, today, mapped, reply, trace,
                   log, tasks, frames>>

ItineraryNext == GenerateItinerary

ItinerarySpec == ItineraryInit /\ [][ItineraryNext]_vars

----------------------------------------------------------------------------
(* tools/search_trains.py.  The environment of a call is what the random   *)
(* generator yields (the number of trains and, for each train, the         *)
(* departure hour and minute, the schedule variation, the train number     *)
(* and the availability of each class) and what the clock reads.           *)

TRAIN_ROUTES ==
    <<"NYC", "Boston">> :>
        [operator |-> "Amtrak Northeast Regional", distance |-> "230 miles",
         base_duration |-> 240, base_price |-> 120]
    @@ <<"NYC", "Philadelphia">> :>
        [operator |-> "Amtrak Northeast Regional", distance |-> "95 miles",
         base_duration |-> 90, base_price |-> 65]
    @@ <<"NYC", "Washington DC">> :>
        [operator |-> "Amtrak Northeast Regional", distance |-> "225 miles",
         base_duration |-> 180, base_price |-> 110]
    @@ <<"Chicago", "Milwaukee">> :>
        [operator |-> "Amtrak Hiawatha", distance |-> "85 miles",
         base_duration |-> 90, base_price |-> 45]
    @@ <<"San Francisco", "Los Angeles">> :>
        [operator |-> "Amtrak Coast Starlight", distance |-> "470 miles",
         base_duration |-> 720, base_price |-> 180]
    @@ <<"Seattle", "Portland">> :>
        [operator |-> "Amtrak Cascades", distance |-> "173 miles",
         base_duration |-> 210, base_price |-> 85]
    @@ <<"Austin", "Dallas">> :>
        [operator |-> "Texas Central Railway", distance |-> "200 miles",
         base_duration |-> 180, base_price |-> 95]
    @@ <<"Miami", "Orlando">> :>
        [operator |-> "Brightline", distance |-> "235 miles",
         base_duration |-> 210, base_price |-> 120]

CITY_ALIASES ==
    "New York" :> "NYC" @@ "New York City" :> "NYC" @@ "San Francisco" :> "SF"
    @@ "Los Angeles" :> "LA" @@ "Washington" :> "Washington DC" @@ "DC" :> "Washington DC"

\* the multiplier is kept in tenths: 1.0, 1.6, 2.4
TRAIN_CLASSES ==
    <<[name |-> "Coach", multiplier |-> 10],
      [name |-> "Business Class", multiplier |-> 16],
      [name |-> "First Class", multiplier |-> 24]>>

\* CITY_ALIASES.get(city, city)
Normalized(city) == IF city \in DOMAIN CITY_ALIASES THEN CITY_ALIASES[city] ELSE city

\* the route found for the two normalized names, None when there is none
RouteInfo(from_normalized, to_normalized) ==
    IF <<from_normalized, to_normalized>> \in DOMAIN TRAIN_ROUTES
    THEN TRAIN_ROUTES[<<from_normalized, to_normalized>>]
    ELSE IF <<to_normalized, from_normalized>> \in DOMAIN TRAIN_ROUTES
    THEN TRAIN_ROUTES[<<to_normalized, from_normalized>>]
    ELSE None

\* TRAIN_ROUTES.keys(), in the order of the dict
RouteKeys ==
    <<<<"NYC", "Boston">>, <<"NYC", "Philadelphia">>, <<"NYC", "Washington DC">>,
      <<"Chicago", "Milwaukee">>, <<"San Francisco", "Los Angeles">>,
      <<"Seattle", "Portland">>, <<"Austin", "Dallas">>, <<"Miami", "Orlando">>>>

\* f"{origin} -> {dest}" for every key
AvailableRoutes ==
    [i \in DOMAIN RouteKeys |-> Text(<<RouteKeys[i][1], " -> ", RouteKeys[i][2]>>)]

\* travel_date < datetime.now(): midnight of the travel day against the present moment
BeforeNow(travel_date, now) ==
    travel_date < now.day \/ (travel_date = now.day /\ now.clock # "00:00:00")

\* the largest power of two that is at most n, from p upwards
RECURSIVE PowerOfTwoBelow(_, _)
PowerOfTwoBelow(n, p) == IF 2 * p > n THEN p ELSE PowerOfTwoBelow(n, 2 * p)

\* int(total_price * 1.15) in binary floating point: the double nearest to 1.15 lies
\* below it, so a product that would be a whole number comes out one unit in the last
\* place short, and is truncated to the number below, when it sits high in its binade
PeakPrice(total_price) ==
    IF /\ total_price > 0 /\ total_price % 20 = 0
       /\ 4 * total_price > 5 * PowerOfTwoBelow((total_price * 115) \div 100, 1)
    THEN (total_price * 115) \div 100 - 1
    ELSE (total_price * 115) \div 100

\* 7 <= departure_hour <= 9 or 17 <= departure_hour <= 19
IsPeak(departure_hour) ==
    (7 <= departure_hour /\ departure_hour <= 9)
        \/ (17 <= departure_hour /\ departure_hour <= 19)

\* one entry of classes
TicketClass(train_class, base_price, passengers, departure_hour, availability) ==
    [className |-> train_class.name,
     pricePerPerson |-> (base_price * train_class.multiplier) \div 10,
     totalPrice |-> IF IsPeak(departure_hour)
                    THEN PeakPrice(((base_price * train_class.multiplier) \div 10) * passengers)
                    ELSE ((base_price * train_class.multiplier) \div 10) * passengers,
     availability |-> availability]

\* route_info['operator'].split()[0][:2].upper()
Prefix(operator) ==
    IF operator = "Texas Central Railway" THEN "TE"
    ELSE IF operator = "Brightline" THEN "BR"
    ELSE "AM"

\* the minute of the day, or of the next days, at which the train arrives
ArrivalMinute(roll, route_info) ==
    roll.departure_hour * 60 + roll.departure_minute + route_info.base_duration + roll.variation

\* one iteration of the loop; date has been parsed before the loop is entered
Train(from_city, to_city, date, passengers, route_info, roll) ==
    [trainNumber |-> Text(<<Prefix(route_info.operator), ToString(roll.number)>>),
     operator |-> route_info.operator,
     departure |-> [city |-> from_city,
                    time |-> [hh |-> roll.departure_hour, mm |-> roll.departure_minute],
                    date |-> date],
     arrival |-> [city |-> to_city,
                  time |-> [hh |-> (ArrivalMinute(roll, route_info) \div 60) % 24,
                            mm |-> ArrivalMinute(roll, route_info) % 60],
                  date |-> strftime(strptime(date).ok
                                    + ArrivalMinute(roll, route_info) \div 1440)],
     duration |-> [hours |-> (route_info.base_duration + roll.variation) \div 60,
                   minutes |-> (route_info.base_duration + roll.variation) % 60],
     distance |-> route_info.distance,
     passengers |-> passengers,
     classes |-> [c \in DOMAIN TRAIN_CLASSES |->
                     TicketClass(TRAIN_CLASSES[c], route_info.base_price, passengers,
                                 roll.departure_hour, roll.availability[c])]]

\* the key of the sort: "HH:MM" strings order as the minutes of the day do
DepartureKey(train) == train.departure.time.hh * 60 + train.departure.time.mm

\* the sorted list with one more train, put behind every train that leaves no later
Inserted(sorted, train) ==
    SelectSeq(sorted, LAMBDA t : DepartureKey(t) <= DepartureKey(train))
    \o <<train>>
    \o SelectSeq(sorted, LAMBDA t : DepartureKey(t) > DepartureKey(train))

\* trains.sort(key=lambda x: x["departure"]["time"]), a stable sort
RECURSIVE Sorted(_)
Sorted(trains) ==
    IF trains = <<>> THEN <<>>
    ELSE Inserted(Sorted(SubSeq(trains, 1, Len(trains) - 1)), trains[Len(trains)])

\* the reply for the trains generated
Schedules(from_city, to_city, date, passengers, route_info, trains, now) ==
    Ok([searchCriteria |-> [from |-> from_city, to |-> to_city, date |-> date,
                            passengers |-> passengers],
        route |-> [operator |-> route_info.operator, distance |-> route_info.distance,
                   averageDuration |-> [hours |-> route_info.base_duration \div 60,
                                        minutes |-> route_info.base_duration % 60]],
        resultsFound |-> Len(trains),
        trains |-> Sorted(trains),
        searchTimestamp |-> IsoFormat(now.day)])

\* the date check and the loop, for the route found
Scheduled(from_city, to_city, date, passengers, route_info, random, now) ==
    IF Raised(strptime(date))
    THEN Ok([error |-> Text(<<"Invalid date format. Use YYYY-MM-DD">>)])
    ELSE IF BeforeNow(strptime(date).ok, now)
    THEN Ok([error |-> Text(<<"Travel date cannot be in the past">>)])
    ELSE Schedules(from_city, to_city, date, passengers, route_info,
                   [i \in 1..random.num_trains |->
                       Train(from_city, to_city, date, passengers, route_info,
                             random.rolls[i])],
                   now)

search_trains(from_city, to_city, date, passengers, random, now) ==
    IF RouteInfo(Normalized(from_city), Normalized(to_city)) = None
    THEN Ok([error |-> Text(<<"No train routes available between ", from_city, " and ",
                              to_city>>),
             available_routes |-> AvailableRoutes,
             suggestion |-> "Consider connecting through a major hub city or alternative "
                            \o "transportation"])
    ELSE Scheduled(from_city, to_city, date, passengers,
                   RouteInfo(Normalized(from_city), Normalized(to_city)), random, now)

----------------------------------------------------------------------------
(* The train search on its own: search_trains applied to every pair of     *)
(* cities, date, number of passengers and run of the random generator      *)

\* every route as listed and reversed, routes named by an alias, and pairs without route
CityPairs ==
    DOMAIN TRAIN_ROUTES \cup {<<k[2], k[1]>> : k \in DOMAIN TRAIN_ROUTES}
    \cup {<<"New York", "Boston">>, <<"DC", "New York City">>, <<"Austin", "Miami">>,
          <<"Boston", "Boston">>}

\* a later day, the day of the call, the day before, and text that is no date
TravelDates ==
    {strftime(ToOrdinal(2024, 3, 1)), strftime(ToOrdinal(2024, 2, 27)),
     strftime(ToOrdinal(2024, 2, 26)), StrVal("tomorrow")}

\* what the generator yields for one train
Rolls ==
    [departure_hour : {9, 20}, departure_minute : {0, 45}, variation : {30},
     number : {100}, availability : {<<"Available", "Limited", "Sold Out">>}]

\* random.randint(3, 8) trains, up to MaxTrains of them
RandomTrains ==
    UNION {[num_trains : {n}, rolls : [1..n -> Rolls]] : n \in 3..MaxTrains}

TrainInit ==
    /\ arguments \in [cities : CityPairs, date : TravelDates, passengers : 1..MaxPassengers]
    /\ collab \in [random : RandomTrains, clock : {"00:00:00", "12:00:00"}]
    /\ today = ToOrdinal(2024, 2, 27)
    /\ result = Pending
    /\ tools = <<>> /\ last = Idle /\ live = <<>> /\ tasks = <<>> /\ frames = <<>>
    /\ name = "searchTrains"
    /\ mapped = Pending /\ reply = Pending /\ trace = <<>> /\ log = <<>>

SearchTrains ==
    /\ result = Pending
    /\ result' = search_trains(arguments.cities[1], arguments.cities[2], arguments.date,
                               arguments.passengers, collab.random,
                               [day |-> today, clock |-> collab.clock])
    /\ UNCHANGED <<tools, last, live, name, arguments, collab, today, mapped, reply, trace,
                   log, tasks, frames>>

TrainNext == SearchTrains

TrainSpec == TrainInit /\ [][TrainNext]_vars

----------------------------------------------------------------------------
(* server.py and server_simple.py: handle_call_tool routes by name to the  *)
(* functions of tools/.  What the body of a tool function does once it     *)
(* runs is the environment of a call (collab.body); collab.server tells    *)
(* which of the two modules handles it.                                    *)

\* a keyword argument of a call: value = arguments[key], or arguments.get(key, default)
Subscript(kw, key) == [kw |-> kw, key |-> key, required |-> TRUE, default |-> None]

GetOr(kw, key, default) == [kw |-> kw, key |-> key, required |-> FALSE, default |-> default]

\* mutant: the call of search_hotels written with the names of the schema
HotelCall_schema ==
    <<Subscript("location", "location"), Subscript("arrival_date", "arrival_date"),
      Subscript("departure_date", "departure_date"), GetOr("adults", "adults", IntVal(1))>>

\* search_hotels(city=arguments["city"], check_in=arguments["checkIn"],
\*               nights=arguments["nights"], guests=arguments.get("guests", 2))
HotelCall ==
    <<Subscript("city", "city"), Subscript("check_in", "checkIn"),
      Subscript("nights", "nights"), GetOr("guests", "guests", IntVal(2))>>

\* the function each name is routed to
Routes ==
    "searchFlights" :> "search_flights" @@ "searchHotels" :> "search_hotels"
    @@ "searchCars" :> "search_cars" @@ "searchTrains" :> "search_trains"
    @@ "generateItinerary" :> "generate_itinerary"

\* the keyword arguments each branch of the handler writes, in the order it writes them
CallOf(server, n) ==
    IF n = "searchFlights"
    THEN <<Subscript("from_id", "from_id"), Subscript("to_id", "to_id"),
           Subscript("depart_date", "depart_date"), GetOr("return_date", "return_date", None),
           GetOr("adults", "adults", IntVal(1)), GetOr("children", "children", IntVal(0)),
           GetOr("stops", "stops", StrVal("none")),
           GetOr("cabin_class", "cabin_class", StrVal("ECONOMY")),
           GetOr("currency_code", "currency_code", StrVal("USD"))>>
    ELSE IF n = "searchHotels" THEN HotelCall
    ELSE IF n = "searchCars" /\ server = "server.py"
    THEN <<Subscript("pick_up_latitude", "pick_up_latitude"),
           Subscript("pick_up_longitude", "pick_up_longitude"),
           Subscript("drop_off_latitude", "drop_off_latitude"),
           Subscript("drop_off_longitude", "drop_off_longitude"),
           Subscript("pick_up_date", "pick_up_date"),
           Subscript("drop_off_date", "drop_off_date"),
           GetOr("pick_up_time", "pick_up_time", StrVal("10:00")),
           GetOr("drop_off_time", "drop_off_time", StrVal("10:00")),
           GetOr("driver_age", "driver_age", IntVal(30)),
           GetOr("currency_code", "currency_code", StrVal("USD")),
           GetOr("location", "location", StrVal("US"))>>
    ELSE IF n = "searchCars"
    THEN <<Subscript("city", "city"), Subscript("pickup_date", "pickupDate"),
           Subscript("days", "days"), GetOr("car_type", "carType", None)>>
    ELSE IF n = "searchTrains"
    THEN <<Subscript("from_city", "from"), Subscript("to_city", "to"),
           Subscript("date", "date"), GetOr("passengers", "passengers", IntVal(1))>>
    ELSE <<Subscript("city", "city"), Subscript("days", "days"),
           GetOr("interests", "interests", ListVal(<<>>))>>

\* the parameters of the functions of tools/: those without and those with a default
Signature(fn) ==
    IF fn = "search_flights"
    THEN [required |-> {"from_id", "to_id", "depart_date"},
          optional |-> {"return_date", "adults", "children", "stops", "cabin_class",
                        "currency_code"}]
    ELSE IF fn = "search_hotels"
    THEN [required |-> {"location", "arrival_date", "departure_date"},
          optional |-> {"adults", "children_age", "room_qty", "units", "page_number",
                        "temperature_unit", "languagecode", "currency_code"}]
    ELSE IF fn = "search_cars"
    THEN [required |-> {"pick_up_latitude", "pick_up_longitude", "drop_off_latitude",
                        "drop_off_longitude", "pick_up_date", "drop_off_date"},
          optional |-> {"pick_up_time", "drop_off_time", "driver_age", "currency_code",
                        "location"}]
    ELSE IF fn = "search_trains"
    THEN [required |-> {"from_city", "to_city", "date"}, optional |-> {"passengers"}]
    ELSE [required |-> {"city", "days"}, optional |-> {"interests"}]

\* the keyword arguments evaluated left to right: KeyError at the first subscript of a
\* key that is missing
RECURSIVE Evaluated(_, _)
Evaluated(call, args) ==
    IF call = <<>> THEN Ok(<<>>)
    ELSE IF Head(call).required /\ Head(call).key \notin DOMAIN args
    THEN Raise("KeyError", <<"'", Head(call).key, "'">>)
    ELSE IF Raised(Evaluated(Tail(call), args)) THEN Evaluated(Tail(call), args)
    ELSE Ok(<<[kw |-> Head(call).kw,
               value |-> GetDefault(args, Head(call).key, Head(call).default)]>>
            \o Evaluated(Tail(call), args).ok)

Keywords(kwargs) == {kwargs[i].kw : i \in DOMAIN kwargs}

\* the call itself: TypeError when a keyword is no parameter of the function or a
\* parameter without default gets no value; otherwise the body runs
Invoked(fn, kwargs, env) ==
    IF \E i \in DOMAIN kwargs : kwargs[i].kw \notin Signature(fn).required
                                                   \cup Signature(fn).optional
    THEN [out |-> Raise("TypeError",
                        <<fn, "() got an unexpected keyword argument '",
                          SelectSeq(kwargs, LAMBDA a : a.kw \notin Signature(fn).required
                                                       \cup Signature(fn).optional)[1].kw,
                          "'">>),
          trace |-> <<>>]
    ELSE IF ~(Signature(fn).required \subseteq Keywords(kwargs))
    THEN [out |-> Raise("TypeError", <<fn, "() missing required positional arguments">>),
          trace |-> <<>>]
    ELSE [out |-> env.body, trace |-> <<[fn |-> fn, kwargs |-> kwargs]>>]

\* the evaluated arguments handed to the function, or the KeyError
Routed(fn, kwargs, env) ==
    IF Raised(kwargs) THEN [out |-> kwargs, trace |-> <<>>]
    ELSE Invoked(fn, kwargs.ok, env)

\* the body of the try block up to the assignment of result
LegacyBody(n, args, env) ==
    IF n \notin DOMAIN Routes
    THEN [out |-> Raise("ValueError", <<"Unknown tool: ", n>>), trace |-> <<>>]
    ELSE Routed(Routes[n], Evaluated(CallOf(env.server, n), args), env)

\* return the result as text; except Exception as e: log it and return {"error": str(e)}
LegacyReply(body, n) ==
    IF Raised(body.out)
    THEN [out |-> Ok(TextContent([error |-> Text(body.out.exc.msg)])),
          trace |-> body.trace,
          log |-> <<Text(<<"Error executing tool ", n, ": ">> \o body.out.exc.msg)>>]
    ELSE [out |-> Ok(TextContent(body.out.ok)), trace |-> body.trace, log |-> <<>>]

legacy_handle_call_tool(n, args, env) == LegacyReply(LegacyBody(n, args, env), n)

----------------------------------------------------------------------------
(* The legacy dispatchers: one handle_call_tool invocation of server.py or *)
(* server_simple.py                                                        *)

LegacyNames == DOMAIN Routes \cup {"bookFlight"}

\* the argument maps of the hotel calls, and maps that carry what the other tools read
LegacyArgs ==
    CallArgs
    \cup {[from |-> StrVal("NYC"), to |-> StrVal("Boston"), date |-> LaterDay(0)],
          [city |-> StrVal("Austin"), days |-> IntVal(2)],
          [city |-> StrVal("Austin"), pickupDate |-> LaterDay(0), days |-> IntVal(2)],
          [from_id |-> StrVal("AUS"), to_id |-> StrVal("SFO"), depart_date |-> LaterDay(0)],
          [pick_up_latitude |-> IntVal(30), pick_up_longitude |-> IntVal(-97),
           drop_off_latitude |-> IntVal(30), drop_off_longitude |-> IntVal(-97),
           pick_up_date |-> LaterDay(0), drop_off_date |-> LaterDay(1)]}

\* what the body of a tool function does: it returns a dict (found or error) or raises
Bodies ==
    {Ok([resultsFound |-> IntVal(0)]), Ok([error |-> Text(<<"Failed to fetch data">>)]),
     StubRaises}

LegacyInit ==
    /\ name \in LegacyNames
    /\ arguments \in LegacyArgs
    /\ collab \in [server : {"server.py", "server_simple.py"}, body : Bodies]
    /\ today = ToOrdinal(2024, 2, 27)
    /\ reply = Pending /\ trace = <<>> /\ log = <<>>
    /\ tools = <<>> /\ last = Idle /\ live = <<>> /\ tasks = <<>> /\ frames = <<>>
    /\ mapped = Pending /\ result = Pending

LegacyAnswered(h) == reply' = h.out /\ trace' = h.trace /\ log' = h.log

LegacyHandleCallTool ==
    /\ reply = Pending
    /\ LegacyAnswered(legacy_handle_call_tool(name, arguments, collab))
    /\ UNCHANGED <<tools, last, live, name, arguments, collab, today, mapped, result,
                   tasks, frames>>

LegacyNext == LegacyHandleCallTool

LegacySpec == LegacyInit /\ [][LegacyNext]_vars

----------------------------------------------------------------------------
(* Claims about the registry and the dispatcher                            *)

\* C1: register_tool(t) raises ValueError whenever a tool named t.get_name() is already
\* registered, and the registry is then unchanged: same entries, same order, the name
\* still mapped to the tool registered first.
C1_DuplicateRejected ==
    [][\A obj \in Candidates :
          (RegisterTool(obj) /\ obj.kind # "object" /\ obj.name \in Names(tools))
              => /\ tools' = tools
                 /\ get_tool_by_name(tools', obj.name) = get_tool_by_name(tools, obj.name)
                 /\ Raised(last'.out)
                 /\ last'.out.exc.type = "ValueError"]_vars

\* a second tool named searchHotels was refused while another entry sits behind the first
C1_Witness ==
    /\ last # Idle
    /\ last.op = "register_tool"
    /\ last.arg = "rival"
    /\ Raised(last.out)
    /\ Len(tools) >= 2
    /\ tools[1].tool = HotelTool

UnknownTool == name \notin Names(tools)

ReplyJson == reply.ok.json

\* C3: for a name that is not registered the reply is one JSON object with only the keys
\* error and timestamp, whose error text contains the name, and no tool is executed.
C3_UnknownToolReply ==
    (reply # Pending /\ UnknownTool)
        => /\ ~Raised(reply)
           /\ DOMAIN ReplyJson = {"error", "timestamp"}
           /\ IsText(ReplyJson.error)
           /\ name \in Range(ReplyJson.error.text)
           /\ \A i \in DOMAIN trace : trace[i].fn # "execute"

\* an unknown name was dispatched over a registry that holds tools
C3_Witness ==
    /\ reply # Pending
    /\ UnknownTool
    /\ tools # <<>>
    /\ name = "bookFlight"

\* what execute of the tool registered under name does during this call
Executed == ToolExecute(get_tool_by_name(tools, name), arguments, collab, today).out

ExecuteRaises == ~UnknownTool /\ Raised(Executed)

\* C4: handle_call_tool never raises; when execute of the looked-up tool raises, the reply
\* is a JSON object with exactly the keys error and timestamp and the exception shows only
\* as text inside error.
C4_ExceptionBecomesReply ==
    reply # Pending
        => /\ ~Raised(reply)
           /\ ExecuteRaises
                => /\ DOMAIN ReplyJson = {"error", "timestamp"}
                   /\ IsText(ReplyJson.error)
                   /\ Range(Executed.exc.msg) \subseteq Range(ReplyJson.error.text)
                   /\ ReplyJson.timestamp = None

\* a registered tool's execute raised and the call was answered
C4_Witness ==
    /\ reply # Pending
    /\ ExecuteRaises
    /\ ~Raised(reply)

HasResult == result # Pending /\ result # None

\* C6: for a successful Result the reply is its data map with searchTimestamp and source
\* set from the Result, replacing same-named keys of data; for a failed Result the reply
\* is exactly {error, timestamp} taken from the Result.
C6_ReplyShape ==
    (reply # Pending /\ HasResult)
        => /\ ~Raised(reply)
           /\ result.success
                => /\ DOMAIN ReplyJson = DOMAIN result.data \cup {"searchTimestamp", "source"}
                   /\ ReplyJson.searchTimestamp = result.timestamp
                   /\ ReplyJson.source = result.source
                   /\ \A k \in DOMAIN result.data \ {"searchTimestamp", "source"} :
                          ReplyJson[k] = result.data[k]
           /\ ~result.success
                => /\ DOMAIN ReplyJson = {"error", "timestamp"}
                   /\ ReplyJson.error = result.error
                   /\ ReplyJson.timestamp = result.timestamp

\* a successful Result whose data already holds a source key was answered
C6_Witness ==
    /\ reply # Pending
    /\ HasResult
    /\ result.success
    /\ "source" \in DOMAIN result.data
    /\ result.data["source"] # result.source

----------------------------------------------------------------------------
(* Claims about the parameter mapper                                       *)

AliasPairs ==
    {[current |-> "location", legacy |-> "city"],
     [current |-> "arrival_date", legacy |-> "checkIn"],
     [current |-> "adults", legacy |-> "guests"],
     [current |-> "departure_date", legacy |-> "nights"]}

\* C7: whenever the current and the legacy key of a field are both in the argument map,
\* map_parameters resolves the field to the value under the current key and the legacy
\* value plays no part (for departure_date/nights: no derivation is attempted).
C7_CurrentTakesPrecedence ==
    mapped # Pending
        => \A p \in AliasPairs :
               (p.current \in DOMAIN arguments /\ p.legacy \in DOMAIN arguments)
                   => IF Raised(mapped) THEN p.current # "departure_date"
                      ELSE mapped.ok[p.current] = arguments[p.current]

\* the calendar day after <<y, m, d>>
NextDay(ymd) ==
    IF ymd[3] < DaysInMonth(ymd[1], ymd[2]) THEN <<ymd[1], ymd[2], ymd[3] + 1>>
    ELSE IF ymd[2] < 12 THEN <<ymd[1], ymd[2] + 1, 1>>
    ELSE <<ymd[1] + 1, 1, 1>>

RECURSIVE PlusDays(_, _)
PlusDays(ymd, n) == IF n = 0 THEN ymd ELSE PlusDays(NextDay(ymd), n - 1)

\* v is the text of a day of the calendar
IsCalendarDate(v) ==
    /\ IsDateStr(v)
    /\ v.ymd[2] \in 1..12
    /\ v.ymd[3] \in 1..DaysInMonth(v.ymd[1], v.ymd[2])

\* the start date of the call: arrival_date, else checkIn
StartDate == Or(Get(arguments, "arrival_date"), Get(arguments, "checkIn"))

\* C8: with departure_date absent and a start date D and a nights count N given,
\* departure_date becomes D plus exactly N calendar days; with departure_date given,
\* nights is ignored and departure_date is passed through unchanged.
C8_DepartureFromNights ==
    mapped # Pending
        => /\ ( /\ "departure_date" \notin DOMAIN arguments
                /\ "nights" \in DOMAIN arguments
                /\ IsInt(arguments["nights"])
                /\ IsCalendarDate(StartDate) )
               => /\ ~Raised(mapped)
                  /\ IsDateStr(mapped.ok.departure_date)
                  /\ mapped.ok.departure_date.ymd
                         = PlusDays(StartDate.ymd, arguments["nights"].int)
           /\ "departure_date" \in DOMAIN arguments
               => /\ ~Raised(mapped)
                  /\ mapped.ok.departure_date = arguments["departure_date"]

LegacyKeys == {"city", "checkIn", "nights", "guests"}

\* a search under the current names only: a location, two zero-padded calendar dates in
\* order, an adults count
IsCurrentSearch(a) ==
    /\ DOMAIN a \cap LegacyKeys = {}
    /\ {"location", "arrival_date", "departure_date", "adults"} \subseteq DOMAIN a
    /\ Truthy(a["location"])
    /\ IsCalendarDate(a["arrival_date"]) /\ a["arrival_date"].pad
    /\ IsCalendarDate(a["departure_date"]) /\ a["departure_date"].pad
    /\ strptime(a["arrival_date"]).ok < strptime(a["departure_date"]).ok

\* the same search under the legacy names
LegacyOf(a) ==
    Merge([k \in DOMAIN a \ {"location", "arrival_date", "departure_date", "adults"} |-> a[k]],
          [city |-> a["location"],
           checkIn |-> a["arrival_date"],
           nights |-> IntVal(strptime(a["departure_date"]).ok - strptime(a["arrival_date"]).ok),
           guests |-> a["adults"]])

\* C9: a valid search written with the current names and the same search written with
\* the legacy names map to the same value in every output field.
C9_ConventionsAgree ==
    (mapped # Pending /\ IsCurrentSearch(arguments))
        => mapped = map_parameters(LegacyOf(arguments))

----------------------------------------------------------------------------
(* Claims about the hotel tool and the hotel service                       *)

Searches == SelectSeq(trace, LAMBDA e : e.fn = "search")

Required == {"location", "arrival_date", "departure_date"}

\* both dates are days of the calendar, departure after arrival, arrival not before today
PassesValidation(c) ==
    /\ Truthy(c["arrival_date"]) /\ Truthy(c["departure_date"])
    /\ ~Raised(strptime(c["arrival_date"])) /\ ~Raised(strptime(c["departure_date"]))
    /\ strptime(c["arrival_date"]).ok < strptime(c["departure_date"]).ok
    /\ strptime(c["arrival_date"]).ok >= today

IsFailure(r) == ~Raised(r) /\ ~r.ok.success /\ Truthy(r.ok.error)

Called(fn) == \E i \in DOMAIN trace : trace[i].fn = fn

\* a collaborator that was invoked during the call raised
CollaboratorRaised ==
    \/ Raised(mapped)
    \/ Called("search") /\ collab.service = "raises"
    \/ Called("validate") /\ collab.validator = "raises"
    \/ Called("get_coordinates") /\ collab.geocoder = "raises"
    \/ Called("load_config") /\ collab.config \in {"raises", "nosection"}
    \/ Called("make_request") /\ "raises" \in DOMAIN collab.api
    \/ /\ Called("format_response")
       /\ \E i \in DOMAIN collab.api.result : collab.api.result[i].fmt = "raises"

\* C5: execute and search never raise: an exception of the mapper, the validator, the
\* geocoder, the configuration loader, the API client or the formatter comes back as a
\* SearchResult with success = false and a non-empty error message.
C5_NeverRaises ==
    result # Pending
        => /\ ~Raised(result)
           /\ \A i \in DOMAIN Searches :
                  ~Raised(search(Searches[i].criteria,
                                 [collab EXCEPT !.service = "HotelSearchService"], today).out)
           /\ CollaboratorRaised => IsFailure(result)

\* the API client raised in the middle of a search and the call still returned
C5_Witness ==
    /\ result # Pending
    /\ Called("make_request")
    /\ "raises" \in DOMAIN collab.api
    /\ IsFailure(result)

\* the mandatory fields that are still missing after mapping
Missing == {f \in Required : ~Truthy(mapped.ok[f])}

NamedIn(error) == Range(error.text) \cap Required

\* C10: when, after current-name lookup, legacy lookup and derivation, a mandatory field
\* is still missing, the call fails with a failure Result whose error names a missing
\* field (location when it is missing, otherwise every missing date field) and the bound
\* service is not called.
C10_MissingFieldNamed ==
    (result # Pending /\ ~Raised(mapped) /\ Missing # {})
        => /\ IsFailure(result)
           /\ IsText(result.ok.error)
           /\ NamedIn(result.ok.error) \cap Missing # {}
           /\ "location" \in Missing => "location" \in NamedIn(result.ok.error)
           /\ "location" \notin Missing => Missing \subseteq NamedIn(result.ok.error)
           /\ Searches = <<>>

\* only departure_date is missing: no legacy key and no derivation supplied it
C10_Witness ==
    /\ result # Pending
    /\ ~Raised(mapped)
    /\ Missing = {"departure_date"}
    /\ "nights" \notin DOMAIN arguments
    /\ IsFailure(result)

----------------------------------------------------------------------------
(* Claims about the mapper's and the validator's treatment of bad input    *)

\* the fields for which the arguments carry no value under either name
Lacking(a) ==
    {f \in Required :
        IF f = "location" THEN ~Truthy(Or(Get(a, "location"), Get(a, "city")))
        ELSE IF f = "arrival_date" THEN ~Truthy(Or(Get(a, "arrival_date"), Get(a, "checkIn")))
        ELSE ~Truthy(Or(Get(a, "departure_date"), Get(a, "nights")))}

\* C11: map_parameters raises KeyError or ValueError whenever the arguments lack a
\* required parameter, e.g. when only location is given and both dates are missing.
C11_MissingParametersRaise ==
    (mapped # Pending /\ Lacking(arguments) # {})
        => /\ Raised(mapped)
           /\ mapped.exc.type \in {"KeyError", "ValueError"}

ArrivalGiven == Get(arguments, "arrival_date")

DepartureGiven == Get(arguments, "departure_date")

\* both values are truthy and strptime accepts them
BothParse ==
    /\ Truthy(ArrivalGiven) /\ ~Raised(strptime(ArrivalGiven))
    /\ Truthy(DepartureGiven) /\ ~Raised(strptime(DepartureGiven))

OrderingMessage == Text(<<"Departure date must be after arrival date">>)

PastMessage == Text(<<"Arrival date cannot be in the past">>)

\* C12: whenever both dates parse and departure is on or before arrival, validate returns
\* (False, the ordering message), whatever the other fields are and whether or not the
\* arrival date lies in the past.
C12_OrderingAlwaysReported ==
    (result # Pending /\ BothParse
        /\ strptime(DepartureGiven).ok <= strptime(ArrivalGiven).ok)
        => result.ok = <<FALSE, OrderingMessage>>

\* equal dates, the arrival already in the past, other fields present: validated
C12_Witness ==
    /\ result # Pending
    /\ BothParse
    /\ strptime(DepartureGiven).ok = strptime(ArrivalGiven).ok
    /\ strptime(ArrivalGiven).ok < today
    /\ "location" \in DOMAIN arguments
    /\ result.ok = <<FALSE, OrderingMessage>>

\* C13: whenever both dates parse and the arrival date is strictly earlier than the
\* current day, validate returns (False, the past-date message), however the departure
\* date compares with the arrival date.
C13_PastAlwaysReported ==
    (result # Pending /\ BothParse /\ strptime(ArrivalGiven).ok < today)
        => result.ok = <<FALSE, PastMessage>>

\* v is a day of the calendar written as YYYY-MM-DD
IsIsoDate(v) == IsCalendarDate(v) /\ v.pad

\* both dates are written as YYYY-MM-DD, in order, the arrival not before today
Acceptable ==
    /\ IsIsoDate(ArrivalGiven) /\ IsIsoDate(DepartureGiven)
    /\ strptime(ArrivalGiven).ok < strptime(DepartureGiven).ok
    /\ strptime(ArrivalGiven).ok >= today

\* C14: validate never raises and returns (True, None) exactly when both dates are
\* present, both are written as YYYY-MM-DD, arrival is strictly before departure and
\* arrival is not earlier than the current day; in every other case it returns
\* (False, message) with a non-empty message.
C14_ValidExactly ==
    result # Pending
        => /\ ~Raised(result)
           /\ IF Acceptable THEN result.ok = <<TRUE, None>>
              ELSE /\ result.ok[1] = FALSE
                   /\ IsText(result.ok[2])
                   /\ Truthy(result.ok[2])

----------------------------------------------------------------------------
(* Claims about the Result envelope, the reply and the log                 *)

\* r is a returned Result with exactly one useful branch
OneBranch(r) ==
    /\ ~Raised(r)
    /\ IF r.ok.success
       THEN r.ok.error = None /\ DOMAIN r.ok.data # {}
       ELSE IsText(r.ok.error) /\ Truthy(r.ok.error) /\ DOMAIN r.ok.data = {}

\* C15: every SearchResult returned by execute, and by search of the wired service when
\* execute reached it, has either success with error unset and a non-empty data map, or
\* failure with a non-empty error text and an empty data map.
C15_ExactlyOneBranch ==
    result # Pending
        => /\ OneBranch(result)
           /\ \A i \in DOMAIN Searches :
                  collab.service = "HotelSearchService"
                      => OneBranch(search(Searches[i].criteria, collab, today).out)

\* the service answered a search that found no hotel: a success with data and no error
C15_Witness ==
    /\ result # Pending
    /\ Searches # <<>>
    /\ result.ok.success
    /\ result.ok.data.hotels = <<>>
    /\ "message" \in DOMAIN result.ok.data

\* C16: every reply of handle_call_tool carries a timestamp field: searchTimestamp when the
\* Result is a success, timestamp otherwise, the unknown-tool path included.
C16_TimestampField ==
    reply # Pending
        => /\ ~Raised(reply)
           /\ IF HasResult /\ result.success
              THEN "searchTimestamp" \in DOMAIN ReplyJson
              ELSE "timestamp" \in DOMAIN ReplyJson

\* an unknown name was answered with a timestamp field, which holds null
C16_Witness ==
    /\ reply # Pending
    /\ UnknownTool
    /\ "timestamp" \in DOMAIN ReplyJson
    /\ ReplyJson.timestamp = None

\* the call did not end in a success
NotSuccess == UnknownTool \/ ExecuteRaises \/ (HasResult /\ ~result.success)

\* C17: whenever the outcome of handle_call_tool is not a success (unknown tool, an
\* exception, or a Result with success false), an entry naming the tool has been logged
\* by the time the reply is returned.
C17_FailureLogged ==
    (reply # Pending /\ NotSuccess)
        => \E i \in DOMAIN log : name \in Range(log[i].text)

----------------------------------------------------------------------------
(* Claims about lookup, listing and removal in the registry                *)

\* the tool of the most recent registration under n that is still in force, else None
MostRecent(h, n) ==
    IF \E i \in DOMAIN h : h[i].name = n
    THEN h[CHOOSE i \in DOMAIN h :
               h[i].name = n /\ \A j \in DOMAIN h : h[j].name = n => j <= i].tool
    ELSE None

\* C18: after any sequence of register_tool and unregister_tool calls, get_tool_by_name(n)
\* returns the tool whose most recent successful registration under n has not since been
\* unregistered, and None when there is none; a lookup does not raise and the registry
\* holds no entry that no registration put there.
C18_LookupMostRecent ==
    /\ \A n \in ToolNames : get_tool_by_name(tools, n) = MostRecent(live, n)
    /\ Names(tools) = Names(live)
    /\ (last # Idle /\ last.op = "get_tool_by_name")
           => ~Raised(last.out) /\ last.out.ok = MostRecent(live, last.arg)

\* searchHotels was looked up after a substituted tool took the name behind another entry
C18_Witness ==
    /\ last # Idle
    /\ last.op = "get_tool_by_name"
    /\ last.arg = "searchHotels"
    /\ last.out = Ok(RivalTool)
    /\ Len(tools) >= 2
    /\ tools[Len(tools)].tool = RivalTool

\* C19: get_all_tools, get_tool_names and the list_tools reply list exactly the tools in
\* force, in the order in which they were registered, whether through register_tool or
\* through add_tool; unregistering one tool leaves the others in their order.
C19_ListingInRegistrationOrder ==
    /\ get_all_tools(tools) = [i \in DOMAIN live |-> live[i].tool]
    /\ get_tool_names(tools) = [i \in DOMAIN live |-> live[i].name]
    /\ handle_list_tools(tools) = [i \in DOMAIN live |-> [name |-> live[i].name]]

\* a tool was removed from in front of two others, the later of them added by the builder
C19_Witness ==
    /\ last # Idle
    /\ last.op = "unregister_tool"
    /\ last.out = Ok(TRUE)
    /\ get_tool_names(tools) = <<"tool2", "tool1">>
    /\ last.arg = "searchHotels"

\* C20: unregister_tool(n) returns True exactly when n was registered before the call,
\* after which n is not registered; otherwise it returns False; either way every other
\* entry is as it was.
C20_UnregisterFrame ==
    [][\A n \in ToolNames :
          (last'.op = "unregister_tool" /\ UnregisterTool(n))
              => /\ last'.out = Ok(n \in Names(tools))
                 /\ n \notin Names(tools')
                 /\ Names(tools') = Names(tools) \ {n}
                 /\ \A m \in ToolNames \ {n} :
                        get_tool_by_name(tools', m) = get_tool_by_name(tools, m)]_vars

\* a registered name was removed while another entry stayed
C20_Witness ==
    /\ last # Idle
    /\ last.op = "unregister_tool"
    /\ last.out = Ok(TRUE)
    /\ last.arg = "tool1"
    /\ tools # <<>>

----------------------------------------------------------------------------
(* Claims about concurrent invocations                                     *)

\* the reply of the call when it runs alone over the registry
Alone(call) == handle_call_tool(tools, call.name, call.arguments, call.collab, today).out

\* C21: handle_call_tool never modifies the registry, and under every interleaving of
\* concurrent invocations each invocation's reply is the one it gives when it runs alone
\* with the same arguments and the same responses of the services.
C21_RepliesAsIfAlone ==
    /\ [][tools' = tools]_vars
    /\ [](\A t \in Tasks : tasks[t].pc = "done" => tasks[t].reply = Alone(tasks[t]))

\* two searches for different places took turns at every wait and both were answered
C21_Witness ==
    /\ trace = <<1, 2, 1, 2, 1, 2>>
    /\ \A t \in Tasks : tasks[t].pc = "done"
    /\ tasks[1].arguments # tasks[2].arguments
    /\ tasks[1].reply # tasks[2].reply

----------------------------------------------------------------------------
(* Claims about the content of a successful hotel search                   *)

\* the criteria the hotel tool handed to the search service
Criteria == Searches[1].criteria

\* the call went through the hotel tool's service and ended in a successful Result
SearchSucceeded ==
    /\ reply # Pending /\ Searches # <<>>
    /\ HasResult /\ result.success

\* the number of days from arrival to departure of a validated stay
DaysBetween(arrival_date, departure_date) ==
    strptime(departure_date).ok - strptime(arrival_date).ok

\* C22: for every successful searchHotels call with arrival A and departure D, the
\* success reply echoes the requested location and carries a nights value equal to
\* the number of days from A to D (both read in the reply's searchCriteria).
C22_NightsEchoed ==
    SearchSucceeded
        => /\ "searchCriteria" \in DOMAIN ReplyJson
           /\ ReplyJson.searchCriteria.location = Criteria.location
           /\ "nights" \in DOMAIN ReplyJson.searchCriteria
           /\ ReplyJson.searchCriteria.nights
                = IntVal(DaysBetween(Criteria.arrival_date, Criteria.departure_date))

----------------------------------------------------------------------------
(* Claims about the defaults of the optional fields                        *)

Optional == {"children_age", "room_qty", "currency_code", "languagecode"}

\* C23: when the corresponding argument is absent, map_parameters resolves
\* currency_code to "USD", languagecode to "en-us", room_qty to 1, children_age to ""
\* and, when neither adults nor guests is given, adults to 1; these are the defaults
\* the tool schema advertises and HotelSearchCriteria declares.
C23_DefaultsApplied ==
    (mapped # Pending /\ ~Raised(mapped))
        => /\ \A k \in Optional \ DOMAIN arguments : mapped.ok[k] = SchemaDefaults[k]
           /\ {"adults", "guests"} \cap DOMAIN arguments = {}
                => mapped.ok.adults = SchemaDefaults.adults
           /\ SchemaDefaults = CriteriaDefaults
           /\ SchemaDefaults = [adults |-> IntVal(1), children_age |-> StrVal(""),
                                room_qty |-> IntVal(1), currency_code |-> StrVal("USD"),
                                languagecode |-> StrVal("en-us")]

\* a search given no optional field and no occupancy has been mapped to the defaults
C23_Witness ==
    /\ mapped # Pending /\ ~Raised(mapped)
    /\ (Optional \cup {"adults", "guests"}) \cap DOMAIN arguments = {}
    /\ "location" \in DOMAIN arguments
    /\ mapped.ok.room_qty = IntVal(1) /\ mapped.ok.adults = IntVal(1)
    /\ mapped.ok.currency_code = StrVal("USD")

\* C24: for every hotel search that returns results, resultsFound equals the number of
\* entries in the returned hotels list.
C24_ResultsFoundCountsHotels ==
    (result # Pending /\ Searches # <<>> /\ result.ok.success
        /\ result.ok.data.hotels # <<>>)
        => result.ok.data.resultsFound = IntVal(Len(result.ok.data.hotels))

----------------------------------------------------------------------------
(* Claims about the order of the steps of a search                         *)

StepOrder == <<"validate", "get_coordinates", "load_config", "make_request">>

\* the collaborator calls search made, in the order it made them
ServiceCalls == SelectSeq(trace, LAMBDA e : e.fn \notin {"map_parameters", "search"})

\* those of them that are not calls of the formatter
Steps == SelectSeq(ServiceCalls, LAMBDA e : e.fn # "format_response")

ValidationFails == collab.validator = "raises" \/ ~PassesValidation(Criteria)

GeocodingFails == collab.geocoder = "raises"

ConfigurationFails == collab.config \in {"raises", "nosection"}

\* C28: search runs its steps in the order validate, geocode, load configuration, API
\* request, format, and stops at the first failing step with a failure Result: the
\* geocoder is not called if validation fails, the configuration is not loaded if
\* geocoding fails, and the API request is made at most once and only after the three
\* earlier steps all succeeded.
C28_StepsInOrder ==
    (result # Pending /\ Searches # <<>> /\ collab.service = "HotelSearchService")
        => /\ Len(Steps) \in 1..4
           /\ \A i \in DOMAIN Steps : Steps[i].fn = StepOrder[i]
           /\ \A i \in DOMAIN ServiceCalls :
                  i > Len(Steps) => ServiceCalls[i].fn = "format_response" /\ Len(Steps) = 4
           /\ \A i \in DOMAIN Steps : ServiceCalls[i] = Steps[i]
           /\ ValidationFails => Len(Steps) = 1 /\ IsFailure(result)
           /\ (~ValidationFails /\ GeocodingFails) => Len(Steps) = 2 /\ IsFailure(result)
           /\ (~ValidationFails /\ ~GeocodingFails /\ ConfigurationFails)
                  => Len(Steps) = 3 /\ IsFailure(result)
           /\ Len(Steps) = 4
                  => ~ValidationFails /\ ~GeocodingFails /\ ~ConfigurationFails
           /\ (Len(Steps) = 4 /\ "raises" \in DOMAIN collab.api)
                  => Len(ServiceCalls) = 4 /\ IsFailure(result)

\* the geocoder failed on a validated criteria: nothing was loaded or requested
C28_Witness ==
    /\ result # Pending /\ Searches # <<>>
    /\ collab.service = "HotelSearchService"
    /\ PassesValidation(Criteria) /\ GeocodingFails
    /\ Len(ServiceCalls) = 2 /\ ServiceCalls[2].fn = "get_coordinates"
    /\ IsFailure(result)

----------------------------------------------------------------------------
(* Claims about the timestamp of a failure reply                           *)

\* the call was answered by the hotel tool
HotelToolCalled == ~UnknownTool /\ get_tool_by_name(tools, name) = HotelTool

\* the Result the handler held was returned by HotelSearchService.search
FromSearchService ==
    HotelToolCalled /\ Searches # <<>> /\ collab.service = "HotelSearchService"

\* the reply is {error, timestamp}, the call being one of the claim's: an unknown tool,
\* the hotel tool, or a tool whose execute raised
FailureReply ==
    /\ reply # Pending /\ ~Raised(reply)
    /\ UnknownTool \/ HotelToolCalled \/ ExecuteRaises
    /\ "error" \in DOMAIN ReplyJson

\* C29: a failure reply of handle_call_tool has a non-null timestamp exactly when the
\* failure Result was produced by HotelSearchService.search; for an unknown tool, a
\* missing required parameter, an exception caught inside HotelSearchTool.execute and an
\* exception caught by the handler before any Result exists, the timestamp is null.
C29_TimestampFromService ==
    FailureReply
        => /\ "timestamp" \in DOMAIN ReplyJson
           /\ ReplyJson.timestamp # None <=> FromSearchService
           /\ (UnknownTool \/ ExecuteRaises) => ~HasResult /\ ReplyJson.timestamp = None
           /\ (HotelToolCalled /\ Searches = <<>>) => ReplyJson.timestamp = None
           /\ (HotelToolCalled /\ collab.service = "raises") => ReplyJson.timestamp = None

\* the geocoder failed inside search: the reply carries the time of the failure
C29_Witness ==
    /\ FailureReply /\ FromSearchService
    /\ collab.geocoder = "raises"
    /\ ReplyJson.timestamp = IsoFormat(today)

----------------------------------------------------------------------------
(* Claims about the legacy tools                                           *)

ClaimedCities == {"Austin", "San Francisco", "New York", "Miami", "Chicago"}

\* C25: for each of the cities Austin, San Francisco, New York, Miami and Chicago and
\* every days value from 1 to 7, generate_itinerary returns without raising a result
\* whose summary.destination is the city and whose itinerary has exactly `days` entries,
\* day1..dayN, with entry dayK carrying day = K.
C25_ItineraryForEveryCity ==
    (result # Pending /\ arguments.city \in ClaimedCities /\ arguments.days \in 1..7)
        => /\ ~Raised(result)
           /\ "summary" \in DOMAIN result.ok
           /\ result.ok.summary.destination = arguments.city
           /\ DOMAIN result.ok.itinerary = {DayKey(k) : k \in 1..arguments.days}
           /\ \A k \in 1..arguments.days : result.ok.itinerary[DayKey(k)].day = k

\* the two cities are the ends of a route of TRAIN_ROUTES, named as listed there
ListedRoute ==
    arguments.cities \in DOMAIN TRAIN_ROUTES
        \/ <<arguments.cities[2], arguments.cities[1]>> \in DOMAIN TRAIN_ROUTES

\* the date is a calendar day after the day of the call
LaterDate == IsIsoDate(arguments.date) /\ strptime(arguments.date).ok > today

\* C26: search_trains finds a route (returns searchCriteria and a non-empty trains list,
\* not an error) for every city pair listed in TRAIN_ROUTES, in either direction, when
\* called with the city names as listed and a valid non-past date.
C26_ListedRoutesFound ==
    (result # Pending /\ ListedRoute /\ LaterDate)
        => /\ ~Raised(result)
           /\ "error" \notin DOMAIN result.ok
           /\ "searchCriteria" \in DOMAIN result.ok
           /\ "trains" \in DOMAIN result.ok
           /\ result.ok.trains # <<>>

\* C27: for every train and every ticket class returned by search_trains, totalPrice
\* equals pricePerPerson multiplied by the number of passengers, whatever the departure
\* time.
C27_TotalIsPerPersonTimesPassengers ==
    (result # Pending /\ ~Raised(result) /\ "trains" \in DOMAIN result.ok)
        => \A i \in DOMAIN result.ok.trains :
               \A c \in DOMAIN result.ok.trains[i].classes :
                   result.ok.trains[i].classes[c].totalPrice
                       = result.ok.trains[i].classes[c].pricePerPerson * arguments.passengers

\* C30: in server.py and server_simple.py no searchHotels call can complete
\* successfully: for every argument map the reply for the name searchHotels is an
\* {error} object and the body of search_hotels is never executed, because the handler
\* reads the keys city, checkIn and nights and passes the keyword arguments city,
\* check_in, nights and guests, none of which search_hotels accepts; in particular a call
\* with exactly location, arrival_date and departure_date fails.
C30_LegacyHotelsAlwaysFails ==
    (reply # Pending /\ name = "searchHotels")
        => /\ ~Raised(reply)
           /\ DOMAIN ReplyJson = {"error"}
           /\ ~Called("search_hotels")
           /\ IF {"city", "checkIn", "nights"} \subseteq DOMAIN arguments
              THEN ReplyJson.error
                       = Text(<<"search_hotels", "() got an unexpected keyword argument '",
                                "city", "'">>)
              ELSE \E k \in {"city", "checkIn", "nights"} \ DOMAIN arguments :
                       ReplyJson.error = Text(<<"'", k, "'">>)
           /\ \A i \in DOMAIN HotelCall :
                  HotelCall[i].kw \notin Signature("search_hotels").required
                                         \cup Signature("search_hotels").optional

\* the call with exactly the arguments the schema requires was refused for the key city
C30_Witness ==
    /\ reply # Pending /\ name = "searchHotels"
    /\ DOMAIN arguments = {"location", "arrival_date", "departure_date"}
    /\ ReplyJson = [error |-> Text(<<"'", "city", "'">>)]
    /\ collab.body = Ok([resultsFound |-> IntVal(0)])

============================================================================
